---- MODULE Spec2Model ----
(***************************************************************************)
(* ShopZada ETL pipeline: ingestion of raw files into staging tables       *)
(* (scripts/00_ingest_all.py), the cleaning run that builds the curated    *)
(* tables (scripts/02_clean_staging.py) and the curated validation         *)
(* (scripts/03_validate_curated.py).                                       *)
(*                                                                         *)
(* Text is a TLA+ string, read character by character with SubSeq.  A cell *)
(* of a table is a tagged record [k, s, n]: k is the kind ("null", "text", *)
(* "ts" for a parsed timestamp, "int"), s the text and n the number.       *)
(***************************************************************************)
EXTENDS Integers, Sequences, FiniteSets, TLC

VARIABLES
  db,        \* the database: table name -> table, for the tables that exist
  cstatus,   \* the last cleaning run: "none", "complete" or "crashed"
  staged,    \* number of staging writes so far (the serial of the next row)
  src,       \* the staging tables as the last cleaning run found them (history)
  rawdir,    \* the files of RAW_DIR
  ipc,       \* the ingestion batch: "idle", "running", "done" or "crashed"
  queue,     \* the files main() has still to ingest, in its sorted order
  ilog,      \* what the ingestion batch printed
  arg,       \* the argument of the function under study
  ret,       \* what its calls returned, in order
  calls      \* how many calls were made

cleanvars == <<db, cstatus, staged, src>>

ingestvars == <<rawdir, ipc, queue, ilog>>

purevars == <<arg, ret, calls>>

vars == <<db, cstatus, staged, src, rawdir, ipc, queue, ilog, arg, ret, calls>>

----------------------------------------------------------------------------
(* Bounds of the model *)

\* staging writes (a row added, a table emptied) before and between the
\* cleaning runs
MaxWrites == 2

----------------------------------------------------------------------------
(* Text helpers *)

Char(s, i) == SubSeq(s, i, i)

IsSpace(c) == c \in {" ", "\t"}

IsDigit(c) == c \in {"0", "1", "2", "3", "4", "5", "6", "7", "8", "9"}

DigitVal(c) ==
  CASE c = "0" -> 0 [] c = "1" -> 1 [] c = "2" -> 2 [] c = "3" -> 3
    [] c = "4" -> 4 [] c = "5" -> 5 [] c = "6" -> 6 [] c = "7" -> 7
    [] c = "8" -> 8 [] c = "9" -> 9

RECURSIVE LStrip(_)
LStrip(s) ==
  IF Len(s) > 0 /\ IsSpace(Char(s, 1)) THEN LStrip(SubSeq(s, 2, Len(s))) ELSE s

RECURSIVE RStrip(_)
RStrip(s) ==
  IF Len(s) > 0 /\ IsSpace(Char(s, Len(s)))
  THEN RStrip(SubSeq(s, 1, Len(s) - 1)) ELSE s

\* str.strip()
Strip(s) == RStrip(LStrip(s))

\* re.sub(r'\s+', ' ', s): every whitespace run becomes one space
RECURSIVE CollapseSpaces(_)
CollapseSpaces(s) ==
  IF Len(s) = 0 THEN s
  ELSE IF IsSpace(Char(s, 1))
       THEN " " \o CollapseSpaces(LStrip(s))
       ELSE Char(s, 1) \o CollapseSpaces(SubSeq(s, 2, Len(s)))

RECURSIVE AllDigits(_)
AllDigits(s) ==
  Len(s) = 0 \/ (IsDigit(Char(s, 1)) /\ AllDigits(SubSeq(s, 2, Len(s))))

RECURSIVE DigitsValue(_)
DigitsValue(s) ==
  IF Len(s) = 0 THEN 0
  ELSE 10 * DigitsValue(SubSeq(s, 1, Len(s) - 1)) + DigitVal(Char(s, Len(s)))

----------------------------------------------------------------------------
(* Cells *)

NULL == [k |-> "null", s |-> "", n |-> 0]

Text(s) == [k |-> "text", s |-> s, n |-> 0]

Ts(n) == [k |-> "ts", s |-> "", n |-> n]

IntCell(n) == [k |-> "int", s |-> "", n |-> n]

\* the result of a cell function that raises an exception
RAISED == [k |-> "raised", s |-> "", n |-> 0]

\* pd.isna(x) for a scalar cell
IsNa(c) == c.k = "null"

\* str(n) for an integer
RECURSIVE NatToStr(_)
NatToStr(n) ==
  IF n < 10 THEN Char("0123456789", n + 1)
  ELSE NatToStr(n \div 10) \o Char("0123456789", (n % 10) + 1)

IntToStr(n) == IF n < 0 THEN "-" \o NatToStr(0 - n) ELSE NatToStr(n)

\* a whole number held in a float64 column; s is its decimal digits
FloatCell(digits) == [k |-> "float", s |-> digits, n |-> 0]

RECURSIVE TrimZeros(_)
TrimZeros(s) ==
  IF Len(s) > 1 /\ Char(s, Len(s)) = "0" THEN TrimZeros(SubSeq(s, 1, Len(s) - 1))
  ELSE s

\* str(x) for a whole float x >= 1: '<digits>.0' below 1e16 and the
\* shortest scientific form from 1e16 on (4.1e+16).  The floats of the
\* model have at most 15 significant digits, which a float64 holds exactly
\* enough for the shortest form to be those digits
float_str(digits) ==
  IF Len(digits) <= 16 THEN digits \o ".0"
  ELSE LET m == TrimZeros(digits)
       IN Char(m, 1)
            \o (IF Len(m) > 1 THEN "." \o SubSeq(m, 2, Len(m)) ELSE "")
            \o "e+" \o NatToStr(Len(digits) - 1)

\* Series.astype(str) on a column read back from SQL, and str(x) of a cell:
\* None becomes 'None'
AsStr(c) ==
  IF IsNa(c) THEN Text("None")
  ELSE IF c.k = "int" THEN Text(IntToStr(c.n))
  ELSE IF c.k = "float" THEN Text(float_str(c.s))
  ELSE Text(c.s)

\* Series.astype(str).str.strip()
KeyText(c) == Text(Strip(AsStr(c).s))

----------------------------------------------------------------------------
(* Tables and the database *)

\* pd.DataFrame(): no columns, no rows
EmptyFrame == [cols |-> {}, rows |-> <<>>]

Frame(cols, rows) == [cols |-> cols, rows |-> rows]

\* df.empty: no rows or no columns
IsEmpty(df) == df.rows = <<>> \/ df.cols = {}

Range(f) == {f[i] : i \in DOMAIN f}

\* df[col] = df[col].apply(f) / a new column computed from the row
SetCol(df, col, F(_)) ==
  Frame(df.cols \cup {col},
        [i \in DOMAIN df.rows |->
           [c \in df.cols \cup {col} |->
              IF c = col THEN F(df.rows[i]) ELSE df.rows[i][c]]])

\* df[cols]: projection on columns the frame has
Project(df, cols) ==
  Frame(cols, [i \in DOMAIN df.rows |-> [c \in cols |-> df.rows[i][c]]])

\* DataFrame.rename(columns={old: new})
Rename(df, old, new) ==
  IF old \notin df.cols THEN df
  ELSE LET cs == (df.cols \ {old}) \cup {new}
       IN Frame(cs, [i \in DOMAIN df.rows |->
                       [c \in cs |-> IF c = new THEN df.rows[i][old]
                                     ELSE df.rows[i][c]]])

\* pd.read_sql("SELECT * FROM table") guarded by try/except
safe_read_table(d, table) ==
  IF table \in DOMAIN d THEN d[table] ELSE EmptyFrame

\* DataFrame.to_sql(table, if_exists='replace'): the table is dropped and
\* created again from the frame
Put(d, table, df) ==
  [t \in DOMAIN d \cup {table} |-> IF t = table THEN df ELSE d[t]]

\* df[c] = df[c].apply(F) for every column c of cols that the frame has
MapCols(df, cols, F(_)) ==
  Frame(df.cols,
        [i \in DOMAIN df.rows |->
           [c \in df.cols |->
              IF c \in cols THEN F(df.rows[i][c]) ELSE df.rows[i][c]]])

\* an exception escaped from a cell function applied to the frame
HasRaised(df) ==
  \E i \in DOMAIN df.rows : \E c \in df.cols : df.rows[i][c] = RAISED

----------------------------------------------------------------------------
(* Column names: utils.normalize_cols *)

UpperLetters == "ABCDEFGHIJKLMNOPQRSTUVWXYZ"

LowerLetters == "abcdefghijklmnopqrstuvwxyz"

UpperSet == {Char(UpperLetters, i) : i \in 1..26}

LowerChar(c) ==
  IF c \in UpperSet
  THEN Char(LowerLetters, CHOOSE i \in 1..26 : Char(UpperLetters, i) = c)
  ELSE c

\* str.lower()
RECURSIVE Lower(_)
Lower(s) ==
  IF Len(s) = 0 THEN s
  ELSE LowerChar(Char(s, 1)) \o Lower(SubSeq(s, 2, Len(s)))

\* re.sub(r'\s+', '_', s)
RECURSIVE UnderscoreSpaces(_)
UnderscoreSpaces(s) ==
  IF Len(s) = 0 THEN s
  ELSE IF IsSpace(Char(s, 1))
       THEN "_" \o UnderscoreSpaces(LStrip(s))
       ELSE Char(s, 1) \o UnderscoreSpaces(SubSeq(s, 2, Len(s)))

NormalizeName_noStrip(c) == UnderscoreSpaces(Lower(c))

\* one column name of normalize_cols
NormalizeName(c) == UnderscoreSpaces(Lower(Strip(c)))

\* the list comprehension of normalize_cols over the list of column labels
normalize_col_names(names) == [i \in DOMAIN names |-> NormalizeName(names[i])]

\* normalize_cols(df): every column renamed by NormalizeName.  Two columns
\* that normalize to one name leave a frame with a repeated label (see
\* NameCollision); the frame below keeps one of them
normalize_cols(df) ==
  LET ren == {<<c, NormalizeName(c)>> : c \in df.cols}
      new == {p[2] : p \in ren}
      old == [n \in new |-> (CHOOSE p \in ren : p[2] = n)[1]]
  IN IF \A p \in ren : p[1] = p[2] THEN df
     ELSE Frame(new, [i \in DOMAIN df.rows |-> [n \in new |-> df.rows[i][old[n]]]])

\* the normalized frame has a repeated column label, which to_sql rejects
NameCollision(df) ==
  Cardinality({NormalizeName(c) : c \in df.cols}) < Cardinality(df.cols)

\* str.contains('^unnamed')
StartsUnnamed(c) == Len(c) >= 7 /\ SubSeq(c, 1, 7) = "unnamed"

\* safe_write_sql(df, table_name, engine): the frame that df.to_sql writes
safe_write_frame(df) ==
  LET n == normalize_cols(df)
  IN Project(n, {c \in n.cols : ~StartsUnnamed(c)})

----------------------------------------------------------------------------
(* Cell cleaning functions of scripts/02_clean_staging.py *)

\* geo_fixes.csv as loaded by load_geo_map: wrong -> correct
GeoMap == [w \in {"Manlia"} |-> "Manila"]

\* normalize_unicode_text(val).  fix_text_mojibake and NFKC normalization
\* leave the ASCII text of this model as it is; the strip, the whitespace
\* collapse and the empty-to-None rule act on it
normalize_unicode_text(c) ==
  IF IsNa(c) THEN NULL
  ELSE LET t == CollapseSpaces(Strip(c.s))
       IN IF t = "" THEN NULL ELSE Text(t)

\* apply_geo_fixes(val): exact match, then case-insensitive match
apply_geo_fixes(c) ==
  IF IsNa(c) THEN NULL
  ELSE LET t == Strip(c.s)
       IN IF t \in DOMAIN GeoMap THEN Text(GeoMap[t])
          ELSE IF \E w \in DOMAIN GeoMap : Lower(w) = Lower(t)
               THEN Text(GeoMap[CHOOSE w \in DOMAIN GeoMap : Lower(w) = Lower(t)])
               ELSE Text(t)

\* lambda x: normalize_unicode_text(x).lower() if pd.notna(x) else None
\* (None.lower() raises AttributeError when the text is only whitespace)
lower_normalized(c) ==
  IF IsNa(c) THEN NULL
  ELSE LET t == normalize_unicode_text(c)
       IN IF IsNa(t) THEN RAISED ELSE Text(Lower(t.s))

DaysInMonth(y, m) ==
  IF m \in {4, 6, 9, 11} THEN 30
  ELSE IF m = 2
       THEN (IF (y % 4 = 0 /\ y % 100 # 0) \/ y % 400 = 0 THEN 29 ELSE 28)
       ELSE 31

\* the texts the model's pd.to_datetime parses: YYYY-MM-DD of a real date
IsIsoDate(t) ==
  /\ Len(t) = 10
  /\ Char(t, 5) = "-" /\ Char(t, 8) = "-"
  /\ AllDigits(SubSeq(t, 1, 4)) /\ AllDigits(SubSeq(t, 6, 7))
  /\ AllDigits(SubSeq(t, 9, 10))
  /\ DigitsValue(SubSeq(t, 6, 7)) \in 1..12
  /\ DigitsValue(SubSeq(t, 9, 10)) \in
       1..DaysInMonth(DigitsValue(SubSeq(t, 1, 4)), DigitsValue(SubSeq(t, 6, 7)))

\* a date as one number that orders as the calendar does: yyyymmdd
DateNum(y, m, d) == y * 10000 + m * 100 + d

\* parse_datetime_safe(val): pd.to_datetime(val, errors='coerce'), None for NaT
parse_datetime_safe(c) ==
  IF IsNa(c) THEN NULL
  ELSE IF c.k = "ts" THEN c
  ELSE IF IsIsoDate(c.s)
       THEN Ts(DateNum(DigitsValue(SubSeq(c.s, 1, 4)),
                       DigitsValue(SubSeq(c.s, 6, 7)),
                       DigitsValue(SubSeq(c.s, 9, 10))))
       ELSE NULL

\* parse_date_safe(val): ts.date() of the parsed timestamp
parse_date_safe(c) ==
  LET ts == parse_datetime_safe(c)
  IN IF IsNa(ts) THEN NULL ELSE [k |-> "date", s |-> "", n |-> ts.n]

clean_birthdate_above5(c, today) ==
  LET d == parse_date_safe(c)
  IN IF IsNa(d) THEN NULL
     ELSE LET y == d.n \div 10000
              m == (d.n \div 100) % 100
              dd == d.n % 100
              before == today.m < m \/ (today.m = m /\ today.d < dd)
              age == today.y - y - (IF before THEN 1 ELSE 0)
          IN IF age <= 5 \/ age > 110 \/ y < 1900 THEN NULL ELSE d

\* clean_birthdate(val), with date.today() as today = [y, m, d]
clean_birthdate(c, today) ==
  LET d == parse_date_safe(c)
  IN IF IsNa(d) THEN NULL
     ELSE LET y == d.n \div 10000
              m == (d.n \div 100) % 100
              dd == d.n % 100
              before == today.m < m \/ (today.m = m /\ today.d < dd)
              age == today.y - y - (IF before THEN 1 ELSE 0)
          IN IF age < 5 \/ age > 110 THEN NULL
             ELSE IF y < 1900 THEN NULL
             ELSE d

RECURSIVE FirstIntStart_noSign(_, _)
FirstIntStart_noSign(s, i) ==
  IF i > Len(s) THEN 0
  ELSE IF IsDigit(Char(s, i)) THEN i
  ELSE FirstIntStart_noSign(s, i + 1)

\* re.search(r'(-?\d+)', s): the start of the leftmost match, 0 when none
RECURSIVE FirstIntStart(_, _)
FirstIntStart(s, i) ==
  IF i > Len(s) THEN 0
  ELSE IF IsDigit(Char(s, i)) THEN i
  ELSE IF Char(s, i) = "-" /\ i < Len(s) /\ IsDigit(Char(s, i + 1)) THEN i
  ELSE FirstIntStart(s, i + 1)

\* the end of the run of digits that starts at i
RECURSIVE DigitRunEnd(_, _)
DigitRunEnd(s, i) ==
  IF i < Len(s) /\ IsDigit(Char(s, i + 1)) THEN DigitRunEnd(s, i + 1) ELSE i

\* extract_int_from_string(s)
extract_int_from_string(c) ==
  IF IsNa(c) THEN NULL
  ELSE LET t == AsStr(c).s
           i == FirstIntStart(t, 1)
       IN IF i = 0 THEN NULL
          ELSE IF Char(t, i) = "-"
               THEN IntCell(0 - DigitsValue(SubSeq(t, i + 1, DigitRunEnd(t, i + 1))))
               ELSE IntCell(DigitsValue(SubSeq(t, i, DigitRunEnd(t, i))))

\* re.sub(r'\D', '', s)
RECURSIVE OnlyDigits(_)
OnlyDigits(s) ==
  IF Len(s) = 0 THEN s
  ELSE (IF IsDigit(Char(s, 1)) THEN Char(s, 1) ELSE "")
         \o OnlyDigits(SubSeq(s, 2, Len(s)))

mask_credit_card_first4(c) ==
  IF IsNa(c) THEN NULL
  ELSE LET t == OnlyDigits(AsStr(c).s)
       IN IF Len(t) >= 4 THEN Text("**** **** **** " \o SubSeq(t, 1, 4)) ELSE NULL

\* mask_credit_card(cc)
mask_credit_card(c) ==
  IF IsNa(c) THEN NULL
  ELSE LET t == OnlyDigits(AsStr(c).s)
       IN IF Len(t) >= 4
          THEN Text("**** **** **** " \o SubSeq(t, Len(t) - 3, Len(t)))
          ELSE NULL

\* safe_numeric(val): the text with every character outside [0-9.eE-] removed,
\* as the number float() reads from it; None when float() rejects it.  The
\* model reads plain decimals (digits, at most one point, a leading minus)
RECURSIVE KeepNumeric(_)
KeepNumeric(s) ==
  IF Len(s) = 0 THEN s
  ELSE (IF IsDigit(Char(s, 1)) \/ Char(s, 1) \in {".", "-", "e", "E"}
        THEN Char(s, 1) ELSE "")
         \o KeepNumeric(SubSeq(s, 2, Len(s)))

RECURSIVE CountChar(_, _)
CountChar(s, c) ==
  IF Len(s) = 0 THEN 0
  ELSE (IF Char(s, 1) = c THEN 1 ELSE 0) + CountChar(SubSeq(s, 2, Len(s)), c)

IsDecimal(t) ==
  LET u == IF Len(t) > 0 /\ Char(t, 1) = "-" THEN SubSeq(t, 2, Len(t)) ELSE t
  IN /\ Len(OnlyDigits(u)) >= 1
     /\ CountChar(u, ".") <= 1
     /\ Len(OnlyDigits(u)) + CountChar(u, ".") = Len(u)

safe_numeric(c) ==
  IF IsNa(c) THEN NULL
  ELSE LET t == KeepNumeric(Strip(c.s))
       IN IF IsDecimal(t) THEN [k |-> "num", s |-> t, n |-> 0] ELSE NULL

----------------------------------------------------------------------------
(* Sorting and duplicate removal *)

\* the characters of the model's texts in code point order
CodePoints == "\t -./0123456789ABCDEFGHIJKLMNOPQRSTUVWXYZ_abcdefghijklmnopqrstuvwxyz"

Code(c) == CHOOSE i \in 1..Len(CodePoints) : Char(CodePoints, i) = c

\* Python's str <=
RECURSIVE StrLE(_, _)
StrLE(a, b) ==
  IF Len(a) = 0 THEN TRUE
  ELSE IF Len(b) = 0 THEN FALSE
  ELSE IF Char(a, 1) = Char(b, 1)
       THEN StrLE(SubSeq(a, 2, Len(a)), SubSeq(b, 2, Len(b)))
       ELSE Code(Char(a, 1)) < Code(Char(b, 1))

\* a <= b for two non-null cells of one column
CellLE(a, b) == IF a.k = "text" THEN StrLE(a.s, b.s) ELSE a.n <= b.n

Perms(n) ==
  {p \in [1..n -> 1..n] : \A i, j \in 1..n : i # j => p[i] # p[j]}

\* (mutant) the sort of the deduplication run ascending: oldest first
DescOrder_ascending(rows, col, p) ==
  \A i, j \in DOMAIN rows :
    i < j =>
      LET a == rows[p[i]][col]
          b == rows[p[j]][col]
      IN /\ IsNa(a) => IsNa(b)
         /\ (~IsNa(a) /\ ~IsNa(b)) => CellLE(a, b)
         /\ (IsNa(a) /\ IsNa(b)) => p[i] < p[j]

\* p orders the rows as sort_values(col, ascending=False) may: later values
\* first, nulls last in their input order; the default quicksort fixes no
\* order among equal values
DescOrder(rows, col, p) ==
  \A i, j \in DOMAIN rows :
    i < j =>
      LET a == rows[p[i]][col]
          b == rows[p[j]][col]
      IN /\ IsNa(a) => IsNa(b)
         /\ (~IsNa(a) /\ ~IsNa(b)) => CellLE(b, a)
         /\ (IsNa(a) /\ IsNa(b)) => p[i] < p[j]

\* p orders the rows as sort_values(col) may (ascending, nulls last)
AscOrder(rows, col, p) ==
  \A i, j \in DOMAIN rows :
    i < j =>
      LET a == rows[p[i]][col]
          b == rows[p[j]][col]
      IN /\ IsNa(a) => IsNa(b)
         /\ (~IsNa(a) /\ ~IsNa(b)) => CellLE(a, b)
         /\ (IsNa(a) /\ IsNa(b)) => p[i] < p[j]

\* the row sequences df.sort_values(col, ascending=False) can return
SortDescChoices(rows, col) ==
  {[i \in DOMAIN rows |-> rows[p[i]]] :
     p \in {q \in Perms(Len(rows)) : DescOrder(rows, col, q)}}

\* the row sequences df.sort_values(col) can return
SortAscChoices(rows, col) ==
  {[i \in DOMAIN rows |-> rows[p[i]]] :
     p \in {q \in Perms(Len(rows)) : AscOrder(rows, col, q)}}

RECURSIVE DropDupsFrom(_, _, _)
DropDupsFrom(rows, key, seen) ==
  IF rows = <<>> THEN <<>>
  ELSE IF Head(rows)[key] \in seen
       THEN DropDupsFrom(Tail(rows), key, seen)
       ELSE <<Head(rows)>>
              \o DropDupsFrom(Tail(rows), key, seen \cup {Head(rows)[key]})

\* df.drop_duplicates(subset=[key], keep='first').reset_index(drop=True)
drop_duplicates(rows, key) == DropDupsFrom(rows, key, {})

\* pd.concat([a, b], ignore_index=True, sort=False): the union of the
\* columns, a missing cell is null
Concat(a, b) ==
  LET cs == a.cols \cup b.cols
      pad(r, cols) == [c \in cs |-> IF c \in cols THEN r[c] ELSE NULL]
  IN Frame(cs, [i \in DOMAIN a.rows |-> pad(a.rows[i], a.cols)]
                 \o [i \in DOMAIN b.rows |-> pad(b.rows[i], b.cols)])

\* the column has dtype object: it holds text (or only nulls)
IsObjectCol(df, c) ==
  \A i \in DOMAIN df.rows : df.rows[i][c].k \in {"text", "null"}

\* for c in df.columns: if df[c].dtype == object: apply normalize_unicode_text
NormalizeObjectCols(df) ==
  MapCols(df, {c \in df.cols : IsObjectCol(df, c)}, normalize_unicode_text)

----------------------------------------------------------------------------
(* The builders of the curated tables: scripts/02_clean_staging.py *)

\* to_sql(df, table): safe_write_sql, and pandas.to_sql of the frame as it is
\* when safe_write_sql raises
to_sql(d, table, df) ==
  IF NameCollision(df) THEN Put(d, table, df)
  ELSE Put(d, table, safe_write_frame(df))

\* how a builder ends: it returns, or an exception leaves it
Returned(d) == [ok |-> TRUE, d |-> d]

Raised(d) == [ok |-> FALSE, d |-> d]

geo_text(c) == apply_geo_fixes(normalize_unicode_text(c))

UserCurCols ==
  {"user_id", "name", "creation_date", "birthdate", "gender", "user_type",
   "street", "city", "state", "country", "device_address"}

\* the rows build_dim_users keeps: sorted by creation_date, latest first,
\* then the first row of every user_id
UserDedupChoices(df) ==
  {drop_duplicates(r, "user_id") :
     r \in IF "creation_date" \in df.cols
           THEN SortDescChoices(df.rows, "creation_date")
           ELSE {df.rows}}

\* the stg_user_data frame after the cell cleaning of build_dim_users
UsersCleaned(df, today) ==
  LET a == MapCols(df, {"user_id"}, KeyText)
      b == MapCols(a, {"name", "street", "city", "state", "country"}, geo_text)
      c == MapCols(b, {"creation_date"}, parse_datetime_safe)
      bd(x) == clean_birthdate(x, today)
      e == MapCols(c, {"birthdate"}, bd)
  IN MapCols(e, {"device_address", "user_type", "gender"}, lower_normalized)

build_dim_users(d, today) ==
  LET df == safe_read_table(d, "stg_user_data")
  IN IF IsEmpty(df) THEN {Returned(d)}
     ELSE IF "user_id" \notin df.cols THEN {Raised(d)}
     ELSE LET f == UsersCleaned(df, today)
          IN IF HasRaised(f) \/ ~(UserCurCols \subseteq f.cols) THEN {Raised(d)}
             ELSE {Returned(to_sql(d, "cur_dim_users",
                                   Project(Frame(f.cols, r), UserCurCols))) :
                     r \in UserDedupChoices(f)}

build_dim_products(d) ==
  LET m0 == safe_read_table(d, "stg_product_list")
      master == IF IsEmpty(m0)
                THEN Frame({"product_id", "product_name", "category", "price"}, <<>>)
                ELSE m0
      a == MapCols(master, {"product_id"}, KeyText)
      b == NormalizeObjectCols(a)
      c == MapCols(b, {"price"}, safe_numeric)
  IN {Returned(to_sql(d, "cur_dim_products", c))}

build_dim_merchants(d) ==
  LET m0 == safe_read_table(d, "stg_merchant_data")
      df == IF IsEmpty(m0) THEN EmptyFrame ELSE m0
      a == MapCols(df, {"merchant_id"}, KeyText)
  IN {Returned(to_sql(d, "cur_dim_merchants", NormalizeObjectCols(a)))}

order_tables ==
  <<"stg_order_data_20200101_20200701", "stg_order_data_20200701_20211001",
    "stg_order_data_20211001_20220101", "stg_order_data_20220101_20221201",
    "stg_order_data_20221201_20230601", "stg_order_data_20230601_20240101">>

line_item_tables ==
  <<"stg_line_item_data_prices1", "stg_line_item_data_prices2",
    "stg_line_item_data_prices3", "stg_line_item_data_products1",
    "stg_line_item_data_products2", "stg_line_item_data_products3">>

\* parts: the non-empty frames of the tables, in the order of the list
RECURSIVE ReadParts(_, _)
ReadParts(d, tables) ==
  IF tables = <<>> THEN <<>>
  ELSE (IF IsEmpty(safe_read_table(d, Head(tables))) THEN <<>>
        ELSE <<safe_read_table(d, Head(tables))>>)
         \o ReadParts(d, Tail(tables))

\* pd.concat(parts, ignore_index=True, sort=False)
RECURSIVE ConcatAll(_)
ConcatAll(parts) ==
  IF Len(parts) = 1 THEN Head(parts)
  ELSE Concat(Head(parts), ConcatAll(Tail(parts)))

\* the date of the timestamp: x.date() if x is not None else None
ts_date(c) == IF c.k = "ts" THEN [k |-> "date", s |-> "", n |-> c.n] ELSE NULL

\* the union of the order tables after the cell cleaning of build_fact_orders
OrdersCleaned(orders) ==
  LET a == MapCols(orders, {"order_id", "user_id"}, KeyText)
      b == IF "transaction_date" \in a.cols
           THEN LET t == SetCol(a, "transaction_ts",
                                LAMBDA r : parse_datetime_safe(r["transaction_date"]))
                IN SetCol(t, "transaction_date_clean",
                          LAMBDA r : ts_date(r["transaction_ts"]))
           ELSE a
  IN IF "estimated_arrival" \in b.cols
     THEN SetCol(b, "estimated_arrival_days",
                 LAMBDA r : extract_int_from_string(r["estimated_arrival"]))
     ELSE b

\* the rows build_fact_orders keeps
OrderDedupChoices(df) ==
  {drop_duplicates(r, "order_id") :
     r \in IF "transaction_ts" \in df.cols
           THEN SortDescChoices(df.rows, "transaction_ts")
           ELSE {df.rows}}

\* cur = orders[cols].rename(...): the curated columns of the kept rows
OrdersCurated(f, rows) ==
  LET cols == {"order_id", "user_id", "transaction_date_clean",
               "transaction_ts", "estimated_arrival_days"} \cap f.cols
  IN Rename(Rename(Project(Frame(f.cols, rows), cols),
                   "transaction_date_clean", "transaction_date"),
            "transaction_ts", "transaction_timestamp")

build_fact_orders(d) ==
  LET parts == ReadParts(d, order_tables)
  IN IF parts = <<>> THEN {Returned(d)}
     ELSE LET f == OrdersCleaned(ConcatAll(parts))
          IN IF "order_id" \notin f.cols THEN {Raised(d)}
             ELSE {Returned(to_sql(d, "cur_fact_orders", OrdersCurated(f, r))) :
                     r \in OrderDedupChoices(f)}

build_fact_line_items(d) ==
  LET parts == ReadParts(d, line_item_tables)
  IN IF parts = <<>> THEN {Returned(d)}
     ELSE LET a == MapCols(ConcatAll(parts), {"order_id", "product_id"}, KeyText)
              b == MapCols(a, {"price", "item_price", "amount", "quantity"},
                           safe_numeric)
          IN IF "line_item_id" \notin b.cols
             THEN {Returned(to_sql(d, "cur_fact_line_items", b))}
             ELSE IF "order_id" \notin b.cols THEN {Raised(d)}
             ELSE {Returned(to_sql(d, "cur_fact_line_items",
                      Frame(b.cols, drop_duplicates(r, "line_item_id")))) :
                     r \in SortAscChoices(b.rows, "order_id")}

\* sub in s
RECURSIVE Contains(_, _)
Contains(s, sub) ==
  IF Len(s) < Len(sub) THEN FALSE
  ELSE SubSeq(s, 1, Len(sub)) = sub \/ Contains(SubSeq(s, 2, Len(s)), sub)

\* the columns clean_order_delays may take the delay from: the first column
\* whose name holds 'delay' or 'days'.  A frame of the model keeps no column
\* order, so every such column may be the first
DelayCols(df) ==
  {c \in df.cols : Contains(Lower(c), "delay") \/ Contains(Lower(c), "days")}

clean_order_delays(d) ==
  LET df == safe_read_table(d, "stg_order_delays")
  IN IF IsEmpty(df) THEN {Returned(d)}
     ELSE IF DelayCols(df) = {} THEN {Returned(to_sql(d, "cur_order_delays", df))}
     ELSE {Returned(to_sql(d, "cur_order_delays",
              SetCol(df, "delay_days", LAMBDA r : extract_int_from_string(r[c])))) :
             c \in DelayCols(df)}

clean_transactional_campaigns(d) ==
  LET df == safe_read_table(d, "stg_transactional_campaign_data")
  IN IF IsEmpty(df) THEN {Returned(d)}
     ELSE {Returned(to_sql(d, "cur_transactional_campaign_data",
                           MapCols(df, {"order_id"}, KeyText)))}

clean_user_credit_card(d) ==
  LET df == safe_read_table(d, "stg_user_credit_card")
  IN IF IsEmpty(df) THEN {Returned(d)}
     ELSE LET m == IF "card_number" \in df.cols
                   THEN SetCol(df, "card_masked",
                               LAMBDA r : mask_credit_card(r["card_number"]))
                   ELSE df
              keep == {"user_id", "card_masked", "card_type", "expiry"} \cap m.cols
          IN {Returned(to_sql(d, "cur_user_credit_card_summary", Project(m, keep)))}

\* S, then B on every outcome of S that returned
AndThen(S, B(_)) == UNION {IF o.ok THEN B(o.d) ELSE {o} : o \in S}

\* main(): the builders in order; an exception that leaves one ends the run.
\* (build_dim_date writes dim_date, a calendar that depends on no staging
\* table and that no builder reads; it is not part of db.)
main_outcomes(d, today) ==
  AndThen(AndThen(AndThen(AndThen(AndThen(AndThen(AndThen(
    build_dim_users(d, today),
    build_dim_products), build_dim_merchants), build_fact_orders),
    build_fact_line_items), clean_order_delays), clean_transactional_campaigns),
    clean_user_credit_card)

----------------------------------------------------------------------------
(* The staging tables the environment fills (what an ingestion run wrote) *)

\* the staging tables of the model that receive rows, with their columns
StagedCols ==
  [t \in {"stg_user_data", "stg_product_list", "stg_merchant_data",
          "stg_order_data_20200101_20200701", "stg_order_data_20200701_20211001",
          "stg_line_item_data_prices1", "stg_order_delays",
          "stg_transactional_campaign_data", "stg_user_credit_card"} |->
     CASE t = "stg_user_data" -> UserCurCols
       [] t = "stg_product_list" -> {"product_id", "product_name"}
       [] t = "stg_merchant_data" -> {"merchant_id", "name"}
       [] t \in {"stg_order_data_20200101_20200701",
                 "stg_order_data_20200701_20211001"} ->
            {"order_id", "user_id", "transaction_date", "estimated_arrival"}
       [] t = "stg_line_item_data_prices1" -> {"order_id", "product_id"}
       [] t = "stg_order_delays" -> {"order_id", "delay_in_days"}
       [] t = "stg_transactional_campaign_data" -> {"order_id", "campaign_id"}
       [] t = "stg_user_credit_card" -> {"user_id", "card_number", "card_type"}]

\* the natural key column of a staging table, and its recency column
KeyCol(t) ==
  CASE t \in {"stg_user_data", "stg_user_credit_card"} -> "user_id"
    [] t = "stg_product_list" -> "product_id"
    [] t = "stg_merchant_data" -> "merchant_id"
    [] OTHER -> "order_id"

RecencyCol(t) ==
  CASE t = "stg_user_data" -> "creation_date"
    [] t \in {"stg_order_data_20200101_20200701",
              "stg_order_data_20200701_20211001"} -> "transaction_date"
    [] OTHER -> "<none>"

\* key cells and recency cells of the rows the environment writes
KeyCells(t) ==
  IF t = "stg_user_data" THEN {Text("U1"), Text(" U1 "), NULL}
  ELSE IF t \in {"stg_order_data_20200101_20200701", "stg_product_list",
                 "stg_order_delays", "stg_user_credit_card"}
       THEN {Text("U1"), NULL}
  ELSE {Text("U1")}

RecencyCells(t) ==
  IF RecencyCol(t) # "<none>"
  THEN {Text("2021-01-05"), Text("2022-03-01"), Text("n/a")}
  ELSE {NULL}

\* the other cells of the n-th row written: every row differs from the others
PayloadText(n) ==
  CASE n = 1 -> " Ann " [] n = 2 -> "Bob  Lee" [] n = 3 -> "manlia"
    [] OTHER -> "Dee"

DelayText(n) == CASE n = 1 -> "13days" [] n = 2 -> "-2 days" [] OTHER -> "soon"

CardText(n) ==
  CASE n = 1 -> "4111-1111-1111-2345" [] n = 2 -> "5500 0000 0000 6789"
    [] OTHER -> "12"

NewRow(t, key, rec, n) ==
  [c \in StagedCols[t] |->
     IF c = KeyCol(t) THEN key
     ELSE IF c = RecencyCol(t) THEN rec
     ELSE IF c \in {"name", "product_name", "campaign_id", "card_type"}
          THEN Text(PayloadText(n))
     ELSE IF c \in {"user_id", "product_id"} THEN Text(PayloadText(n + 1))
     ELSE IF c \in {"delay_in_days", "estimated_arrival"} THEN Text(DelayText(n))
     ELSE IF c = "card_number" THEN Text(CardText(n))
     ELSE NULL]

\* today's date of a cleaning run
Todays == {[y |-> 2026, m |-> 11, d |-> 3]}

----------------------------------------------------------------------------
(* The cleaning specification: staging rows arrive, cleaning runs follow *)

NoTables == [t \in {} |-> EmptyFrame]

CleanIdle == db = NoTables /\ cstatus = "none" /\ staged = 0 /\ src = NoTables

IngestIdle == rawdir = {} /\ ipc = "idle" /\ queue = <<>> /\ ilog = <<>>

PureIdle == arg = NULL /\ ret = <<>> /\ calls = 0

Init == CleanIdle /\ IngestIdle /\ PureIdle

\* an ingestion run left one more row in staging table t
StageRow(t, key, rec) ==
  /\ staged < MaxWrites
  /\ staged' = staged + 1
  /\ db' = Put(db, t,
               Frame(StagedCols[t],
                     Append(safe_read_table(db, t).rows,
                            NewRow(t, key, rec, staged + 1))))
  /\ UNCHANGED <<cstatus, src, ingestvars, purevars>>

\* an ingestion run replaced staging table t by a file with a header only
StageEmpty(t) ==
  /\ staged < MaxWrites
  /\ t \in DOMAIN db
  /\ db[t].rows # <<>>
  /\ staged' = staged + 1
  /\ db' = Put(db, t, Frame(StagedCols[t], <<>>))
  /\ UNCHANGED <<cstatus, src, ingestvars, purevars>>

IsStaging(t) == Len(t) >= 4 /\ SubSeq(t, 1, 4) = "stg_"

\* python scripts/02_clean_staging.py
CleanMain ==
  \E today \in Todays :
    \E o \in main_outcomes(db, today) :
      /\ db' = o.d
      /\ cstatus' = IF o.ok THEN "complete" ELSE "crashed"
      /\ src' = [t \in {u \in DOMAIN db : IsStaging(u)} |-> db[t]]
      /\ UNCHANGED <<staged, ingestvars, purevars>>

Next ==
  \/ \E t \in DOMAIN StagedCols :
       \E key \in KeyCells(t) : \E rec \in RecencyCells(t) : StageRow(t, key, rec)
  \/ \E t \in DOMAIN StagedCols : StageEmpty(t)
  \/ CleanMain

Spec == Init /\ [][Next]_vars

----------------------------------------------------------------------------
(* Claims about the cleaning run *)

\* the curated tables and their natural keys
CuratedKey ==
  [t \in {"cur_dim_users", "cur_dim_products", "cur_dim_merchants",
          "cur_fact_orders", "cur_order_delays",
          "cur_transactional_campaign_data", "cur_user_credit_card_summary"} |->
     CASE t \in {"cur_dim_users", "cur_user_credit_card_summary"} -> "user_id"
       [] t = "cur_dim_products" -> "product_id"
       [] t = "cur_dim_merchants" -> "merchant_id"
       [] OTHER -> "order_id"]

KeyValues(df, key) == {df.rows[i][key] : i \in DOMAIN df.rows}

\* C1: after a cleaning run every curated table has a unique natural key: no
\* two rows of a curated table share a natural-key value
C1_UniqueNaturalKeys ==
  cstatus # "none" =>
    \A t \in DOMAIN CuratedKey \cap DOMAIN db :
      CuratedKey[t] \in db[t].cols =>
        \A i, j \in DOMAIN db[t].rows :
          i # j => db[t].rows[i][CuratedKey[t]] # db[t].rows[j][CuratedKey[t]]

\* the rows of the cleaned source frame f that carry the key value k
Group(f, key, k) == {i \in DOMAIN f.rows : f.rows[i][key] = k}

\* the rows of G have different recency timestamps
DifferentRecency(f, G, rec) ==
  \A i, j \in G : i # j => f.rows[i][rec] # f.rows[j][rec]

\* the row of G with the latest timestamp (a row without one is the oldest)
Latest(f, G, rec) ==
  CHOOSE i \in G :
    \A j \in G : IsNa(f.rows[j][rec])
                 \/ (~IsNa(f.rows[i][rec]) /\ f.rows[j][rec].n <= f.rows[i][rec].n)

\* curated frame cur holds, for every key whose source rows in f have
\* different recency timestamps, exactly one row, and it is row-for-row the
\* curated form (expected) of the source row with the latest timestamp
KeepsLatest(cur, expected, f, key, rec) ==
  \A k \in KeyValues(f, key) :
    LET G == Group(f, key, k)
    IN DifferentRecency(f, G, rec) =>
         /\ Cardinality({i \in DOMAIN cur.rows : cur.rows[i][key] = k}) = 1
         /\ \A i \in DOMAIN cur.rows :
              cur.rows[i][key] = k => cur.rows[i] = expected.rows[Latest(f, G, rec)]

\* the user rows and the order rows the last cleaning run read, cell-cleaned
SrcUsers(today) == UsersCleaned(safe_read_table(src, "stg_user_data"), today)

SrcOrders == OrdersCleaned(ConcatAll(ReadParts(src, order_tables)))

\* C2: deduplication precedence of build_dim_users and build_fact_orders: of
\* the source rows that share a natural key and have different recency
\* timestamps, the curated table holds exactly one row, the one with the
\* latest timestamp, and every field of it is that source row's field
C2_LatestRowWins ==
  cstatus = "complete" =>
    /\ ~IsEmpty(safe_read_table(src, "stg_user_data")) =>
         \E today \in Todays :
           KeepsLatest(db["cur_dim_users"],
                       Project(SrcUsers(today), UserCurCols),
                       SrcUsers(today), "user_id", "creation_date")
    /\ ReadParts(src, order_tables) # <<>> =>
         KeepsLatest(db["cur_fact_orders"],
                     OrdersCurated(SrcOrders, SrcOrders.rows),
                     SrcOrders, "order_id", "transaction_ts")

\* C2 witness: a run deduplicated two user rows of one key with two dates,
\* and two order rows of one key that came from two order tables
C2_Witness_Users ==
  /\ cstatus = "complete"
  /\ Len(safe_read_table(src, "stg_user_data").rows) >= 2
  /\ \E today \in Todays :
       \E k \in KeyValues(SrcUsers(today), "user_id") :
         /\ Cardinality(Group(SrcUsers(today), "user_id", k)) >= 2
         /\ DifferentRecency(SrcUsers(today),
                             Group(SrcUsers(today), "user_id", k), "creation_date")
         /\ \A i \in Group(SrcUsers(today), "user_id", k) :
              ~IsNa(SrcUsers(today).rows[i]["creation_date"])
  /\ Len(db["cur_dim_users"].rows) = 1

\* C5: in every curated table the natural key of every row is non-null
C5_KeysNotNull ==
  cstatus # "none" =>
    \A t \in DOMAIN CuratedKey \cap DOMAIN db :
      CuratedKey[t] \in db[t].cols =>
        \A i \in DOMAIN db[t].rows : ~IsNa(db[t].rows[i][CuratedKey[t]])

\* the staging tables a curated table is built from
SourcesOf ==
  [t \in DOMAIN CuratedKey |->
     CASE t = "cur_dim_users" -> {"stg_user_data"}
       [] t = "cur_dim_products" -> {"stg_product_list"}
       [] t = "cur_dim_merchants" -> {"stg_merchant_data"}
       [] t = "cur_fact_orders" -> Range(order_tables)
       [] t = "cur_order_delays" -> {"stg_order_delays"}
       [] t = "cur_transactional_campaign_data" ->
            {"stg_transactional_campaign_data"}
       [] t = "cur_user_credit_card_summary" -> {"stg_user_credit_card"}]

\* C10: after a run in which the staging source of an entity was absent or
\* empty, the run is complete and the curated table of the entity holds no
\* row (no row of an earlier run is left in it)
C10_MissingSourceLeavesNoRows ==
  cstatus # "none" =>
    \A t \in DOMAIN CuratedKey :
      (\A s \in SourcesOf[t] : IsEmpty(safe_read_table(src, s))) =>
        /\ cstatus = "complete"
        /\ t \in DOMAIN db => db[t].rows = <<>>

----------------------------------------------------------------------------
(* JSON payloads and load_json_flex: scripts/00_ingest_all.py *)

\* A decoded JSON value: a mapping (v: key -> value), a list (v: a sequence
\* of values) or a scalar (v: a cell).  A nested value that sits in a cell of
\* a frame is a cell of kind "dict" or "list": s is its JSON text and n the
\* number of its elements
JMap(f) == [kind |-> "mapping", v |-> f]

JList(q) == [kind |-> "list", v |-> q]

JScalar(c) == [kind |-> "scalar", v |-> c]

\* isinstance(obj, dict) and all(isinstance(v, dict) for v in obj.values())
IsDictOfDicts(obj) ==
  obj.kind = "mapping" /\ \A c \in DOMAIN obj.v : obj.v[c].kind = "mapping"

\* inner_keys: the union of the keys of the inner mappings
inner_keys(obj) == UNION {DOMAIN obj.v[c].v : c \in DOMAIN obj.v}

\* the sequences over all of set S, each element once
Enumerations(S) ==
  {q \in [1..Cardinality(S) -> S] : \A i, j \in DOMAIN q : i # j => q[i] # q[j]}

\* str(x).isdigit()
IsDigitKey(k) == Len(k) > 0 /\ AllDigits(k)

\* sorted(inner_keys, key=lambda x: int(x) if str(x).isdigit() else x), and
\* sorted(inner_keys, key=str) when a number meets a text (TypeError); keys
\* with one sort key (as "1" and "01") keep the order the set iterates in
sorted_keys_choices(S) ==
  IF \A k \in S : IsDigitKey(k)
  THEN {q \in Enumerations(S) :
          \A i, j \in DOMAIN q : i < j => DigitsValue(q[i]) <= DigitsValue(q[j])}
  ELSE {q \in Enumerations(S) : \A i, j \in DOMAIN q : i < j => StrLE(q[i], q[j])}

\* inner.get(k): None when the inner mapping lacks the key
DictGet(inner, k) == IF k \in DOMAIN inner THEN inner[k] ELSE JScalar(NULL)

\* pd.DataFrame(rows) of a list of dicts: the columns are the keys the rows
\* have, so an empty list gives a frame without columns
DataFrameOfRows(rows) ==
  LET cs == UNION {DOMAIN rows[i] : i \in DOMAIN rows}
  IN Frame(cs, [i \in DOMAIN rows |->
                  [c \in cs |-> IF c \in DOMAIN rows[i] THEN rows[i][c] ELSE NULL]])

\* the sequence of the keys of a mapping in the order the mapping holds them
\* (here: sorted, the order the payloads are written in)
KeyOrder(f) == CHOOSE q \in Enumerations(DOMAIN f) :
                 \A i, j \in DOMAIN q : i < j => StrLE(q[i], q[j])

RECURSIVE JsonText(_)
RECURSIVE JoinItems(_, _)
RECURSIVE JoinPairs(_, _, _)
JoinItems(q, i) ==
  IF i > Len(q) THEN ""
  ELSE (IF i > 1 THEN ", " ELSE "") \o JsonText(q[i]) \o JoinItems(q, i + 1)

JoinPairs(f, ks, i) ==
  IF i > Len(ks) THEN ""
  ELSE (IF i > 1 THEN ", " ELSE "") \o "\"" \o ks[i] \o "\": "
       \o JsonText(f[ks[i]]) \o JoinPairs(f, ks, i + 1)

\* json.dumps(x) of a decoded value
JsonText(j) ==
  IF j.kind = "scalar"
  THEN (IF j.v.k = "null" THEN "null"
        ELSE IF j.v.k = "int" THEN IntToStr(j.v.n)
        ELSE "\"" \o j.v.s \o "\"")
  ELSE IF j.kind = "list" THEN "[" \o JoinItems(j.v, 1) \o "]"
  ELSE "{" \o JoinPairs(j.v, KeyOrder(j.v), 1) \o "}"

\* the cell that holds a JSON value: a scalar as it is, a nested value as a
\* cell of kind "dict" or "list"
CellOf(j) ==
  IF j.kind = "scalar" THEN j.v
  ELSE [k |-> IF j.kind = "list" THEN "list" ELSE "dict",
        s |-> JsonText(j),
        n |-> IF j.kind = "list" THEN Len(j.v) ELSE Cardinality(DOMAIN j.v)]

\* json.load(fh) on the body of a file.  A body is one JSON value (a mapping,
\* a list or a scalar), a text of one JSON record per line (kind "lines", v
\* the records), or a text that is no JSON.  One value decodes to itself; a
\* text of several lines, each a value, raises JSONDecodeError ('Extra
\* data'), as do the empty text and a malformed one
json_load(body) ==
  IF body.kind \in {"mapping", "list", "scalar"} THEN [ok |-> TRUE, obj |-> body]
  ELSE IF body.kind = "lines" /\ Len(body.v) = 1 THEN [ok |-> TRUE, obj |-> body.v[1]]
  ELSE [ok |-> FALSE, obj |-> JScalar(NULL)]

\* pd.DataFrame([obj]): one row; a mapping gives its keys as the columns,
\* any other value the single column 0
WrapRow(obj) ==
  DataFrameOfRows(<<IF obj.kind = "mapping"
                    THEN [c \in DOMAIN obj.v |-> CellOf(obj.v[c])]
                    ELSE [c \in {"0"} |-> CellOf(obj)]>>)

KeysOfKind(obj, kind) == {c \in DOMAIN obj.v : obj.v[c].kind = kind}

\* pd.read_json(path) of a payload that is neither a mapping of mappings
\* nor a list, DataFrame(value) in the end: the frames it returns, or ok =
\* FALSE when it raises.  A null gives the empty frame and any other scalar
\* raises; a mapping of scalars raises ('you must pass an index'); lists of
\* one length give one row per element, a scalar next to them repeated in
\* every row, and lists of several lengths raise; mappings give one row per
\* key of their union, a scalar next to them repeated; mappings next to
\* lists raise
read_json(obj) ==
  IF obj.kind = "scalar"
  THEN {IF IsNa(obj.v) THEN [ok |-> TRUE, df |-> EmptyFrame]
        ELSE [ok |-> FALSE, df |-> EmptyFrame]}
  ELSE LET maps == KeysOfKind(obj, "mapping")
           lists == KeysOfKind(obj, "list")
           lens == {Len(obj.v[c].v) : c \in lists}
       IN IF (maps = {} /\ lists = {}) \/ (maps # {} /\ lists # {})
             \/ Cardinality(lens) > 1
          THEN {[ok |-> FALSE, df |-> EmptyFrame]}
          ELSE IF lists # {}
          THEN {[ok |-> TRUE,
                 df |-> Frame(DOMAIN obj.v,
                              [i \in 1..(CHOOSE n \in lens : TRUE) |->
                                 [c \in DOMAIN obj.v |->
                                    IF c \in lists THEN CellOf(obj.v[c].v[i])
                                    ELSE CellOf(obj.v[c])]])]}
          ELSE {[ok |-> TRUE,
                 df |-> Frame(DOMAIN obj.v,
                              [i \in DOMAIN ks |->
                                 [c \in DOMAIN obj.v |->
                                    IF c \in maps
                                    THEN CellOf(DictGet(obj.v[c].v, ks[i]))
                                    ELSE CellOf(obj.v[c])]])] :
                  ks \in sorted_keys_choices(
                           UNION {DOMAIN obj.v[c].v : c \in maps})}

\* load_json_flex(path) on the decoded payload obj: the frames it can return
load_json_flex(obj) ==
  IF IsDictOfDicts(obj)
  THEN {DataFrameOfRows(
          [i \in DOMAIN ks |->
             [c \in DOMAIN obj.v |-> CellOf(DictGet(obj.v[c].v, ks[i]))]]) :
          ks \in sorted_keys_choices(inner_keys(obj))}
  ELSE IF obj.kind = "list"
  THEN {DataFrameOfRows(
          [i \in DOMAIN obj.v |->
             IF obj.v[i].kind = "mapping"
             THEN [c \in DOMAIN obj.v[i].v |-> CellOf(obj.v[i].v[c])]
             ELSE [c \in {"0"} |-> CellOf(obj.v[i])]])}
  ELSE {IF r.ok THEN r.df ELSE WrapRow(obj) : r \in read_json(obj)}

\* the frames of at most n rows over columns cs, column c drawing from pool[c]
RECURSIVE FramesUpTo(_, _, _)
FramesUpTo(cs, pool, n) ==
  IF n = 0 THEN {Frame(cs, <<>>)}
  ELSE LET smaller == FramesUpTo(cs, pool, n - 1)
           rowset == {r \in [cs -> UNION {pool[c] : c \in cs}] :
                        \A c \in cs : r[c] \in pool[c]}
       IN smaller \cup {Frame(cs, Append(f.rows, r)) :
                          f \in {g \in smaller : Len(g.rows) = n - 1}, r \in rowset}

----------------------------------------------------------------------------
(* Specification of load_json_flex *)

\* keys of one inner mapping, rows of a frame handed to a pure function
MaxInner == 2

MaxCells == 2

InnerKeyPool == {"1", "2", "10", "x"}

InnerValues == {JScalar(IntCell(1)), JScalar(NULL)}

InnerMappings ==
  UNION {[S -> InnerValues] :
           S \in {T \in SUBSET InnerKeyPool : Cardinality(T) <= MaxInner}}

\* the payloads json.load can hand over: mappings of mappings, and one
\* payload for each of the other two branches
JsonPayloads ==
  {JMap(f) : f \in UNION {[S -> {JMap(m) : m \in InnerMappings}] :
                            S \in SUBSET {"a", "b"}}}
    \cup {JList(<<JMap([c \in {"a"} |-> JScalar(IntCell(1))])>>),
          JMap([c \in {"a"} |-> JScalar(IntCell(1))])}

InitJson == CleanIdle /\ IngestIdle /\ arg \in JsonPayloads /\ ret = <<>> /\ calls = 0

LoadJson ==
  /\ calls = 0
  /\ \E df \in load_json_flex(arg) : ret' = <<df>>
  /\ calls' = 1
  /\ UNCHANGED <<arg, cleanvars, ingestvars>>

NextJson == LoadJson

SpecJson == InitJson /\ [][NextJson]_vars

\* C3: for a mapping whose values are all mappings, load_json_flex returns a
\* table with one column per outer key and one row per element of the union
\* of the inner keys, whose cell (row k, column c) is obj[c][k] when k is a
\* key of obj[c] and null otherwise
C3_DictOfDictsReconstruction ==
  (calls = 1 /\ IsDictOfDicts(arg)) =>
    LET df == ret[1]
        keys == inner_keys(arg)
    IN /\ df.cols = DOMAIN arg.v
       /\ Len(df.rows) = Cardinality(keys)
       /\ \E ks \in Enumerations(keys) :
            \A i \in DOMAIN df.rows : \A c \in DOMAIN arg.v :
              df.rows[i][c] = IF ks[i] \in DOMAIN arg.v[c].v
                              THEN CellOf(arg.v[c].v[ks[i]])
                              ELSE NULL

----------------------------------------------------------------------------
(* sanitize_nested_columns: scripts/00_ingest_all.py *)

\* isinstance(x, (dict, list))
IsNested(c) == c.k \in {"dict", "list"}

\* json.dumps(x) of a cell
json_dumps(c) ==
  IF IsNested(c) THEN Text(c.s)
  ELSE IF c.k = "int" THEN Text(IntToStr(c.n))
  ELSE Text("\"" \o c.s \o "\"")

\* the test "if pd.notna(x)": a scalar and a mapping give one truth value; a
\* list gives an array of truth values, whose own truth value is that of its
\* element when it has one, is an error when it has several, and for the
\* empty array is False or an error with the numpy of the build (emptyRaises)
NotnaTest(c, emptyRaises) ==
  IF c.k # "list" THEN (IF IsNa(c) THEN "false" ELSE "true")
  ELSE IF c.n = 0 THEN (IF emptyRaises THEN "raise" ELSE "false")
  ELSE IF c.n = 1 THEN (IF c.s = "[null]" THEN "false" ELSE "true")
  ELSE "raise"

\* lambda x: json.dumps(x) if pd.notna(x) else None
SanitizeCell(c, emptyRaises) ==
  LET t == NotnaTest(c, emptyRaises)
  IN IF t = "raise" THEN RAISED
     ELSE IF t = "true" THEN json_dumps(c)
     ELSE NULL

\* the columns the loop rewrites: some cell that dropna() keeps is nested
NestedCols_anyNonNull(df) ==
  {c \in df.cols : \E i \in DOMAIN df.rows : ~IsNa(df.rows[i][c])}

NestedCols(df) ==
  {c \in df.cols : \E i \in DOMAIN df.rows : IsNested(df.rows[i][c])}

\* sanitize_nested_columns(df): the frame it returns, or ok = FALSE when a
\* cell's test raises
sanitize_nested_columns(df, emptyRaises) ==
  LET out == Frame(df.cols,
                   [i \in DOMAIN df.rows |->
                      [c \in df.cols |->
                         IF c \in NestedCols(df)
                         THEN SanitizeCell(df.rows[i][c], emptyRaises)
                         ELSE df.rows[i][c]]])
  IN IF HasRaised(out) THEN [ok |-> FALSE, df |-> EmptyFrame]
     ELSE [ok |-> TRUE, df |-> out]

----------------------------------------------------------------------------
(* Specification of sanitize_nested_columns *)

DictCell == CellOf(JMap([c \in {"k"} |-> JScalar(IntCell(1))]))

ListCell(q) == CellOf(JList(q))

\* column "a" may hold nested values, column "b" holds scalars or a mapping
SanPool ==
  [c \in {"a", "b"} |->
     IF c = "a"
     THEN {NULL, Text("x"), DictCell, ListCell(<<>>),
           ListCell(<<JScalar(NULL)>>), ListCell(<<JScalar(IntCell(1))>>),
           ListCell(<<JScalar(IntCell(1)), JScalar(IntCell(2))>>)}
     ELSE {NULL, Text("x"), DictCell}]

SanFrames == FramesUpTo({"a", "b"}, SanPool, MaxCells)

InitSan ==
  /\ CleanIdle /\ IngestIdle
  /\ arg \in {[df |-> f, emptyRaises |-> b] : f \in SanFrames, b \in BOOLEAN}
  /\ ret = <<>>
  /\ calls = 0

\* sanitize_nested_columns(t)
Sanitize ==
  /\ calls = 0
  /\ ret' = <<sanitize_nested_columns(arg.df, arg.emptyRaises)>>
  /\ calls' = 1
  /\ UNCHANGED <<arg, cleanvars, ingestvars>>

\* sanitize_nested_columns(sanitize_nested_columns(t)): an error of the inner
\* call is the error of the expression
SanitizeAgain ==
  /\ calls = 1
  /\ ret' = Append(ret, IF ret[1].ok
                        THEN sanitize_nested_columns(ret[1].df, arg.emptyRaises)
                        ELSE ret[1])
  /\ calls' = 2
  /\ UNCHANGED <<arg, cleanvars, ingestvars>>

NextSan == Sanitize \/ SanitizeAgain

SpecSan == InitSan /\ [][NextSan]_vars

\* C7: sanitize_nested_columns returns for every table; in a column with a
\* non-null nested cell every non-null cell becomes its JSON text and every
\* null cell stays null, any other column is unchanged, and no cell of the
\* returned table is nested
C7_SanitizeColumnWiseTotal ==
  calls >= 1 =>
    /\ ret[1].ok
    /\ ret[1].df.cols = arg.df.cols
    /\ Len(ret[1].df.rows) = Len(arg.df.rows)
    /\ \A c \in arg.df.cols : \A i \in DOMAIN arg.df.rows :
         LET in == arg.df.rows[i][c]
             out == ret[1].df.rows[i][c]
         IN /\ ~IsNested(out)
            /\ out = IF c \in NestedCols(arg.df) /\ ~IsNa(in)
                     THEN json_dumps(in)
                     ELSE in

\* C8: sanitizing a sanitized table changes nothing: the outcome of
\* sanitize_nested_columns(sanitize_nested_columns(t)) is the outcome of
\* sanitize_nested_columns(t), cell for cell
C8_SanitizeIdempotent == calls = 2 => ret[2] = ret[1]

\* the first pass rewrote a column that holds a text next to a mapping, and
\* the second pass ran on its result
C8_Witness_Rewritten ==
  /\ calls = 2
  /\ ret[1].ok
  /\ \E i, j \in DOMAIN arg.df.rows :
       /\ arg.df.rows[i]["a"] = Text("x")
       /\ arg.df.rows[j]["a"] = DictCell
       /\ ret[2].df.rows[i]["a"] = Text("\"x\"")
       /\ ret[2].df.rows[j]["a"] = Text("{\"k\": 1}")

----------------------------------------------------------------------------
(* count_fk_mismatches: scripts/03_validate_curated.py *)

\* set(df_parent[parent_key].astype(str))
parent_set(df_parent, parent_key) ==
  {AsStr(df_parent.rows[i][parent_key]).s : i \in DOMAIN df_parent.rows}

\* sum(~df_child[child_key].astype(str).isin(parent_set)): one for every
\* child row whose key text is not in the set; -1 when a key column is missing
count_fk_mismatches(df_child, df_parent, child_key, parent_key) ==
  IF child_key \notin df_child.cols \/ parent_key \notin df_parent.cols
  THEN 0 - 1
  ELSE Cardinality({i \in DOMAIN df_child.rows :
                      AsStr(df_child.rows[i][child_key]).s
                        \notin parent_set(df_parent, parent_key)})

\* the child tables: orders by user, or a table that lacks the key column
FkChildren ==
  FramesUpTo({"user_id"},
             [c \in {"user_id"} |-> {Text("U1"), Text("U2"), NULL}], MaxCells)
    \cup FramesUpTo({"order_id"}, [c \in {"order_id"} |-> {Text("O1")}], 1)

FkParents ==
  FramesUpTo({"user_id"}, [c \in {"user_id"} |-> {Text("U1"), NULL}], MaxCells)

InitFk ==
  /\ CleanIdle /\ IngestIdle
  /\ arg \in {[child |-> ch, parent |-> pa, child_key |-> "user_id",
               parent_key |-> "user_id"] : ch \in FkChildren, pa \in FkParents}
  /\ ret = <<>>
  /\ calls = 0

CountFk ==
  /\ calls = 0
  /\ ret' = <<count_fk_mismatches(arg.child, arg.parent, arg.child_key,
                                  arg.parent_key)>>
  /\ calls' = 1
  /\ UNCHANGED <<arg, cleanvars, ingestvars>>

NextFk == CountFk

SpecFk == InitFk /\ [][NextFk]_vars

\* the non-null values of a column
NonNullValues(df, col) ==
  {df.rows[i][col] : i \in {j \in DOMAIN df.rows : ~IsNa(df.rows[j][col])}}

\* C6: when both key columns exist, count_fk_mismatches returns the number of
\* distinct non-null child key values that are not in the parent's key
\* column: a null child key is not counted, a repeated missing key once
C6_DistinctNonNullMismatches ==
  (calls = 1 /\ arg.child_key \in arg.child.cols
             /\ arg.parent_key \in arg.parent.cols) =>
    ret[1] = Cardinality(NonNullValues(arg.child, arg.child_key)
                           \ NonNullValues(arg.parent, arg.parent_key))

----------------------------------------------------------------------------
(* Files of the raw directory and their readers: scripts/00_ingest_all.py *)

HasChar(s, ch) == \E i \in 1..Len(s) : Char(s, i) = ch

\* the fields of s between the separators ch
RECURSIVE SplitOn(_, _)
SplitOn(s, ch) ==
  IF ~HasChar(s, ch) THEN <<s>>
  ELSE LET i == CHOOSE k \in 1..Len(s) :
                  Char(s, k) = ch /\ \A j \in 1..(k - 1) : Char(s, j) # ch
       IN <<SubSeq(s, 1, i - 1)>> \o SplitOn(SubSeq(s, i + 1, Len(s)), ch)

\* str.replace(from, to) for single characters
RECURSIVE ReplaceChar(_, _, _)
ReplaceChar(s, from, to) ==
  IF Len(s) = 0 THEN s
  ELSE (IF Char(s, 1) = from THEN to ELSE Char(s, 1))
       \o ReplaceChar(SubSeq(s, 2, Len(s)), from, to)

\* os.path.splitext(base): the extension starts at the last dot, unless the
\* name has no dot after its first character
LastDot(base) ==
  IF \E i \in 2..Len(base) : Char(base, i) = "."
  THEN CHOOSE i \in 2..Len(base) :
         Char(base, i) = "." /\ \A j \in (i + 1)..Len(base) : Char(base, j) # "."
  ELSE 0

splitext(base) ==
  IF LastDot(base) = 0 THEN <<base, "">>
  ELSE <<SubSeq(base, 1, LastDot(base) - 1), SubSeq(base, LastDot(base), Len(base))>>

\* safe_table_base(path)
safe_table_base(base) ==
  ReplaceChar(ReplaceChar(Lower(splitext(base)[1]), " ", "_"), "-", "_")

\* the texts pd.read_csv reads as missing (its default na_values)
NaTexts == {"", "NA", "N/A", "n/a", "NULL", "null", "NaN", "nan", "None", "#N/A"}

\* the non-blank lines of a text
TextLines(text) == SelectSeq(SplitOn(text, "\n"), LAMBDA l : l # "")

\* pd.read_csv(path, sep=sep, engine='python'): the first line names the
\* columns (an empty name becomes 'Unnamed: j'), a short row is padded with
\* missing values, a column of whole numbers is read as integers and any
\* other as text; a file without a line raises EmptyDataError.  (The files
\* of the model have no row longer than the header and no repeated name.)
read_csv(text, sep) ==
  LET lines == TextLines(text)
      head == SplitOn(lines[1], sep)
      name(j) == IF head[j] = "" THEN "Unnamed: " \o NatToStr(j - 1) ELSE head[j]
      field(i, j) == LET fs == SplitOn(lines[i + 1], sep)
                     IN IF j <= Len(fs) THEN fs[j] ELSE ""
      n == Len(lines) - 1
      isInt(j) == n > 0 /\ \A i \in 1..n : IsDigitKey(field(i, j))
      cell(i, j) == IF isInt(j) THEN IntCell(DigitsValue(field(i, j)))
                    ELSE IF field(i, j) \in NaTexts THEN NULL
                    ELSE Text(field(i, j))
      idx(c) == CHOOSE j \in 1..Len(head) : name(j) = c
      cs == {name(j) : j \in 1..Len(head)}
  IN IF lines = <<>> THEN [ok |-> FALSE, df |-> EmptyFrame]
     ELSE [ok |-> TRUE,
           df |-> Frame(cs, [i \in 1..n |-> [c \in cs |-> cell(i, idx(c))]])]

\* ingest_csv's separator: a tab when the first line holds one
sniff_sep(text) ==
  IF HasChar(SplitOn(text, "\n")[1], "\t") THEN "\t" ELSE ","

\* one line of the ingestion log
LogEntry(kind, file, table, rows) ==
  [kind |-> kind, file |-> file, table |-> table, rows |-> rows]

\* how an ingest function ends: it returns after its write (log: the [OK]
\* line of safe_write_sql), or an exception leaves it before any write
Wrote(d, file, table, df) ==
  [d |-> Put(d, table, df),
   log |-> <<LogEntry("OK", file, table, Len(df.rows))>>,
   raised |-> FALSE]

Fails(d) == [d |-> d, log |-> <<>>, raised |-> TRUE]

\* the common tail of the ingest functions: normalize_cols (an exception of
\* it is passed over), sanitize_nested_columns, safe_write_sql.  A frame
\* whose normalized names repeat is rejected before the table is replaced
write_staging(d, file, df, table_base, emptyRaises) ==
  LET s == sanitize_nested_columns(normalize_cols(df), emptyRaises)
  IN IF NameCollision(df) \/ ~s.ok THEN Fails(d)
     ELSE Wrote(d, file, "stg_" \o table_base, safe_write_frame(s.df))

\* ingest_csv(path, table_base)
ingest_csv(d, f, table_base, emptyRaises) ==
  LET r == read_csv(f.text, sniff_sep(f.text))
  IN IF ~r.ok THEN {Fails(d)}
     ELSE {write_staging(d, f.name, r.df, table_base, emptyRaises)}

\* the [DEBUG] lines of ingest_json: for a frame of one row with a nested
\* cell, and the expected row count when the payload is a mapping of mappings
DebugLines(file, obj, df) ==
  IF Len(df.rows) = 1 /\ NestedCols(df) # {}
  THEN <<LogEntry("DEBUG", file, "", 1)>>
       \o (IF IsDictOfDicts(obj)
           THEN <<LogEntry("DEBUG", file, "", Cardinality(inner_keys(obj)))>>
           ELSE <<>>)
  ELSE <<>>

\* ingest_json(path, table_base): json.load raises on a text that is no JSON
ingest_json(d, f, table_base, emptyRaises) ==
  LET j == json_load(f.obj)
  IN IF ~j.ok THEN {Fails(d)}
     ELSE {[write_staging(d, f.name, df, table_base, emptyRaises)
              EXCEPT !.log = DebugLines(f.name, j.obj, df) \o @] :
             df \in load_json_flex(j.obj)}

\* pickle.load(f) on the body of a file: the object it holds (a mapping, a
\* list, a scalar, or a frame: kind "frame", v the frame); a body that is no
\* pickle raises
pickle_load(body) ==
  IF body.kind \in {"mapping", "list", "scalar", "frame"}
  THEN [ok |-> TRUE, obj |-> body]
  ELSE [ok |-> FALSE, obj |-> JScalar(NULL)]

\* ingest_pickle: inner_keys of a mapping of mappings
pickle_inner_keys_firstColumn(obj) ==
  IF DOMAIN obj.v = {} THEN {}
  ELSE DOMAIN obj.v[CHOOSE c \in DOMAIN obj.v : TRUE].v

pickle_inner_keys(obj) == UNION {DOMAIN obj.v[c].v : c \in DOMAIN obj.v}

\* ingest_pickle: the frames it builds from a mapping of mappings, one row
\* per inner key in sorted order
pickle_dict_of_dicts(obj) ==
  {DataFrameOfRows(
     [i \in DOMAIN ks |->
        [c \in DOMAIN obj.v |->
           IF ks[i] \in DOMAIN obj.v[c].v THEN CellOf(obj.v[c].v[ks[i]])
           ELSE NULL]]) :
     ks \in sorted_keys_choices(pickle_inner_keys(obj))}

\* ingest_pickle: the frames built from the loaded object.  A frame is taken
\* as it is; a mapping of mappings is rebuilt; for any other mapping
\* pd.DataFrame(obj) (the constructor pd.read_json ends in) is tried before
\* pd.DataFrame([obj]); for any other object pd.DataFrame(obj) is tried
\* before a one-row frame that names the object's type
pickle_frames(obj) ==
  IF obj.kind = "frame" THEN {obj.v}
  ELSE IF obj.kind = "mapping"
  THEN (IF IsDictOfDicts(obj) THEN pickle_dict_of_dicts(obj)
        ELSE {IF r.ok THEN r.df ELSE WrapRow(obj) : r \in read_json(obj)})
  ELSE IF obj.kind = "list" THEN load_json_flex(obj)
  ELSE {IF r.ok THEN r.df
        ELSE Frame({"pickle_repr"},
                   <<[c \in {"pickle_repr"} |-> Text("<class 'scalar'>")]>>) :
          r \in read_json(obj)}

\* ingest_pickle(path, table_base)
ingest_pickle(d, f, table_base, emptyRaises) ==
  LET j == pickle_load(f.obj)
  IN IF ~j.ok THEN {Fails(d)}
     ELSE {write_staging(d, f.name, df, table_base, emptyRaises) :
             df \in pickle_frames(j.obj)}

\* the extensions whose readers take a binary format: read_html, read_excel
\* and read_parquet raise on the files of the model
BinaryExts == {".html", ".htm", ".xlsx", ".xls", ".parquet"}

\* the body of ingest_file's try block
ingest_dispatch(d, f, emptyRaises) ==
  LET table_base == safe_table_base(f.name)
      ext == Lower(splitext(f.name)[2])
  IN IF ext \in {".csv", ".tsv"} THEN ingest_csv(d, f, table_base, emptyRaises)
     ELSE IF ext = ".json" THEN ingest_json(d, f, table_base, emptyRaises)
     ELSE IF ext \in BinaryExts THEN {Fails(d)}
     ELSE IF ext \in {".pickle", ".pkl"}
     THEN ingest_pickle(d, f, table_base, emptyRaises)
     ELSE {[d |-> d, log |-> <<LogEntry("SKIP", f.name, "", 0)>>, raised |-> FALSE]}

\* ingest_file(path) without its except clause: the exception leaves it
ingest_file_noExcept(d, f, emptyRaises) ==
  {[d |-> r.d,
    log |-> <<LogEntry("Ingesting", f.name, "", 0)>> \o r.log,
    escaped |-> r.raised] : r \in ingest_dispatch(d, f, emptyRaises)}

\* ingest_file(path): every Exception of the ingest function is logged
ingest_file(d, f, emptyRaises) ==
  {[d |-> r.d,
    log |-> <<LogEntry("Ingesting", f.name, "", 0)>> \o r.log
            \o (IF r.raised THEN <<LogEntry("ERROR", f.name, "", 0)>> ELSE <<>>),
    escaped |-> FALSE] : r \in ingest_dispatch(d, f, emptyRaises)}

\* sorted(files): the paths share the directory, so the names order them
SortedFiles(S) ==
  CHOOSE q \in Enumerations(S) :
    \A i, j \in DOMAIN q : i < j => StrLE(q[i].name, q[j].name)

trouble_files == {"order_data_20221201-20230601.json", "user_data.json"}

\* main's pre-check: an [ESTIMATE] line for a trouble file that holds a
\* mapping of mappings; any exception is passed over
Estimates(files) ==
  LET hit == SelectSeq(files, LAMBDA f : f.name \in trouble_files
                                         /\ json_load(f.obj).ok
                                         /\ IsDictOfDicts(json_load(f.obj).obj))
  IN [i \in DOMAIN hit |->
        LogEntry("ESTIMATE", hit[i].name, "",
                 Cardinality(inner_keys(json_load(hit[i].obj).obj)))]

----------------------------------------------------------------------------
(* The ingestion specification: one batch over a raw directory, then one
   cleaning run *)

\* files in the raw directory
MaxFiles == 3

NoObj == [kind |-> "none", v |-> NULL]

Malformed == [kind |-> "malformed", v |-> NULL]

File(name, text, obj) == [name |-> name, text |-> text, obj |-> obj]

SnapshotDates == {"2021-01-05", "2022-03-01"}

UserCsvHead == <<"user_id", "name", "creation_date", "birthdate", "gender",
                 "user_type", "street", "city", "state", "country",
                 "device_address">>

UserCsvRow(date) == <<"U1", "Ann", date, "1990-01-02", "F", "basic",
                      "Main St", "Manila", "NCR", "PH", "AA">>

RECURSIVE Join(_, _)
Join(q, sep) ==
  IF Len(q) = 0 THEN ""
  ELSE IF Len(q) = 1 THEN q[1]
  ELSE q[1] \o sep \o Join(Tail(q), sep)

\* a users snapshot: a header line and one line for user U1
UsersText(sep, date) ==
  Join(UserCsvHead, sep) \o "\n" \o Join(UserCsvRow(date), sep) \o "\n"

\* the same snapshot as a JSON mapping column -> (row id -> value)
UsersJson(date) ==
  JMap([c \in Range(UserCsvHead) |->
          JMap([k \in {"0"} |->
                  JScalar(Text(UserCsvRow(date)[CHOOSE j \in 1..11 :
                                                   UserCsvHead[j] = c]))])])

FilePool ==
  {File(n, UsersText(",", dt), NoObj) :
     n \in {"user_data.csv", "user_data_v2.csv"}, dt \in SnapshotDates}
    \cup {File("User-Data.csv", UsersText("\t", dt), NoObj) : dt \in SnapshotDates}
    \cup {File("broken.csv", "", NoObj), File("notes.txt", "hello", NoObj),
          File("user_data.csv", "name,creation_date\nAnn,2021-01-05\n", NoObj),
          File("user_data.json", "", UsersJson("2022-03-01")),
          File("user_data.json", "", Malformed)}

\* a directory holds at most MaxFiles files, no two of one name
RawDirs ==
  {S \in SUBSET FilePool :
     /\ Cardinality(S) <= MaxFiles
     /\ \A f, g \in S : f.name = g.name => f = g}

InitIngest ==
  /\ CleanIdle /\ PureIdle
  /\ rawdir \in RawDirs
  /\ ipc = "idle" /\ queue = <<>> /\ ilog = <<>>

\* main() up to its loop
IngestStart ==
  /\ ipc = "idle"
  /\ IF rawdir = {}
     THEN /\ ilog' = <<LogEntry("NOFILES", "", "", 0)>>
          /\ ipc' = "nofiles"
          /\ queue' = <<>>
     ELSE /\ queue' = SortedFiles(rawdir)
          /\ ilog' = Estimates(SortedFiles(rawdir))
          /\ ipc' = "loop"
  /\ UNCHANGED <<rawdir, cleanvars, purevars>>

\* one turn of "for p in files: ingest_file(p)"
IngestFile ==
  /\ ipc = "loop"
  /\ queue # <<>>
  /\ \E emptyRaises \in BOOLEAN :
       \E o \in ingest_file(db, Head(queue), emptyRaises) :
         /\ db' = o.d
         /\ ilog' = ilog \o o.log
         /\ ipc' = IF o.escaped THEN "crashed" ELSE "loop"
  /\ queue' = Tail(queue)
  /\ UNCHANGED <<rawdir, cstatus, staged, src, purevars>>

\* print("Ingest complete.")
IngestDone ==
  /\ ipc = "loop"
  /\ queue = <<>>
  /\ ilog' = Append(ilog, LogEntry("COMPLETE", "", "", 0))
  /\ ipc' = "done"
  /\ UNCHANGED <<rawdir, queue, cleanvars, purevars>>

\* python scripts/02_clean_staging.py after the batch
CleanAfterIngest == ipc = "done" /\ cstatus = "none" /\ CleanMain

NextIngest == IngestStart \/ IngestFile \/ IngestDone \/ CleanAfterIngest

SpecIngest == InitIngest /\ [][NextIngest]_vars

----------------------------------------------------------------------------
(* Claims about the ingestion batch *)

\* a CSV file that is a users snapshot holding user U1, and U1's
\* creation_date in it
IsUserSnapshot(f) ==
  /\ Lower(splitext(f.name)[2]) = ".csv"
  /\ LET r == read_csv(f.text, sniff_sep(f.text))
     IN /\ r.ok
        /\ {"user_id", "creation_date"} \subseteq r.df.cols
        /\ \E i \in DOMAIN r.df.rows : r.df.rows[i]["user_id"] = Text("U1")

U1Date(f) ==
  LET df == read_csv(f.text, sniff_sep(f.text)).df
  IN df.rows[CHOOSE i \in DOMAIN df.rows :
               df.rows[i]["user_id"] = Text("U1")]["creation_date"]

LaterDate(a, b) ==
  IF parse_datetime_safe(a).n >= parse_datetime_safe(b).n
  THEN parse_datetime_safe(a) ELSE parse_datetime_safe(b)

\* the rows of cur_dim_users for user U1
U1Rows ==
  IF "cur_dim_users" \in DOMAIN db
  THEN SelectSeq(db["cur_dim_users"].rows, LAMBDA r : r["user_id"] = Text("U1"))
  ELSE <<>>

\* C4: after a batch over a directory with two CSV snapshots that both hold
\* user U1 with different creation_date values, and the cleaning run after
\* it, cur_dim_users holds exactly one row for U1, with the later of the two
\* dates
C4_TwoSnapshotsLatestWins ==
  cstatus # "none" =>
    \A f, g \in rawdir :
      (f # g /\ IsUserSnapshot(f) /\ IsUserSnapshot(g) /\ U1Date(f) # U1Date(g)) =>
        /\ Len(U1Rows) = 1
        /\ U1Rows[1]["creation_date"] = LaterDate(U1Date(f), U1Date(g))

\* the files the loop has taken so far
Processed ==
  IF ipc \in {"loop", "done"}
  THEN SubSeq(SortedFiles(rawdir), 1, Cardinality(rawdir) - Len(queue))
  ELSE <<>>

SupportedExts == {".csv", ".tsv", ".json", ".pickle", ".pkl"} \cup BinaryExts

\* a file of a supported format whose content its reader accepts
Readable(f) ==
  LET ext == Lower(splitext(f.name)[2])
  IN \/ ext \in {".csv", ".tsv"} /\ TextLines(f.text) # <<>>
     \/ ext = ".json" /\ f.obj.kind \in {"mapping", "list", "scalar"}

EntriesOf(name) == SelectSeq(ilog, LAMBDA e : e.file = name /\ e.kind # "ESTIMATE")

OkEntries == SelectSeq(ilog, LAMBDA e : e.kind = "OK")

\* the batch so far: every file taken once, in sorted order; each has its
\* "Ingesting" line and then one outcome line, [SKIP] for an unsupported
\* extension, [ERROR] for a file its reader rejects, [OK] for any other;
\* the staging tables are those of the [OK] lines, each as its last [OK]
\* line left it; the batch has not crashed, and the next file of the loop
\* always has an outcome
BatchIsolation ==
  /\ ipc # "crashed"
  /\ LET att == SelectSeq(ilog, LAMBDA e : e.kind = "Ingesting")
     IN /\ Len(att) = Len(Processed)
        /\ \A i \in DOMAIN att : att[i].file = Processed[i].name
  /\ \A i \in DOMAIN Processed :
       LET f == Processed[i]
           es == EntriesOf(f.name)
       IN /\ Len(es) = 2
          /\ es[1].kind = "Ingesting"
          /\ es[2].kind =
               IF Lower(splitext(f.name)[2]) \notin SupportedExts THEN "SKIP"
               ELSE IF Readable(f) THEN "OK" ELSE "ERROR"
  /\ {t \in DOMAIN db : IsStaging(t)} = {e.table : e \in Range(OkEntries)}
  /\ \A i \in DOMAIN OkEntries :
       (\A j \in DOMAIN OkEntries : j > i => OkEntries[j].table # OkEntries[i].table)
         => Len(db[OkEntries[i].table].rows) = OkEntries[i].rows
  /\ (ipc = "loop" /\ queue # <<>>) =>
       \E emptyRaises \in BOOLEAN : ingest_file(db, Head(queue), emptyRaises) # {}
  /\ ipc = "done" => /\ queue = <<>>
                     /\ Len(Processed) = Cardinality(rawdir)
                     /\ ilog[Len(ilog)].kind = "COMPLETE"

\* C9 as stated: for any list of files the batch takes every file once in
\* sorted order, a failing or unsupported file is logged, writes no table
\* and stops no later file, and the batch always ends with 'Ingest complete'
C9_BatchAlwaysCompletes == BatchIsolation /\ ipc # "nofiles"

\* C9, amended: the same for every non-empty directory; for an empty
\* directory main logs 'No files found', writes nothing and returns without
\* 'Ingest complete'
C9_FileLevelIsolation ==
  /\ BatchIsolation
  /\ ipc \in {"loop", "done"} => rawdir # {}
  /\ ipc = "nofiles" => /\ rawdir = {}
                        /\ ilog = <<LogEntry("NOFILES", "", "", 0)>>
                        /\ db = NoTables

\* the batch ended after a file failed and a later file was written
C9_Witness_ErrorThenOk ==
  /\ ipc = "done"
  /\ \E i, j \in DOMAIN ilog :
       /\ i < j
       /\ ilog[i].kind = "ERROR"
       /\ ilog[j].kind = "OK"
       /\ ilog[j].table \in DOMAIN db

----------------------------------------------------------------------------
(* Specification of the ingestion of one JSON file *)

\* records of a line-delimited JSON text
MaxLines == 2

JsonValues ==
  {JScalar(IntCell(1)), JScalar(NULL), JScalar(Text("t")),
   JList(<<JScalar(IntCell(1)), JScalar(IntCell(2))>>),
   JList(<<JScalar(IntCell(1))>>),
   JMap([k \in {"x"} |-> JScalar(IntCell(1))]),
   JMap([k \in {"x", "y"} |-> JScalar(IntCell(1))])}

LineRecords == {JMap([k \in {"a"} |-> JScalar(IntCell(n))]) : n \in {1, 2}}

JsonLines(q) == [kind |-> "lines", v |-> q]

\* the bodies of a .json file: a mapping over the keys a and b, a scalar, a
\* list, a text of one record per line, a text that is no JSON
JsonBodies ==
  {JMap(f) : f \in UNION {[S -> JsonValues] : S \in SUBSET {"a", "b"}}}
    \cup {JScalar(IntCell(5)), JScalar(Text("abc")), JScalar(NULL)}
    \cup {JList(<<>>), JList(<<JMap([k \in {"a"} |-> JScalar(IntCell(1))])>>)}
    \cup {JsonLines(q) : q \in UNION {[1..n -> LineRecords] : n \in 1..MaxLines}}
    \cup {Malformed}

InitJsonFile ==
  /\ CleanIdle /\ IngestIdle
  /\ arg \in {File("payload.json", "", b) : b \in JsonBodies}
  /\ ret = <<>>
  /\ calls = 0

\* ingest_file(path) of the file, on an empty database
IngestJsonFile ==
  /\ calls = 0
  /\ \E emptyRaises \in BOOLEAN :
       \E o \in ingest_file(NoTables, arg, emptyRaises) : ret' = <<o>>
  /\ calls' = 1
  /\ UNCHANGED <<arg, cleanvars, ingestvars>>

NextJsonFile == IngestJsonFile

SpecJsonFile == InitJsonFile /\ [][NextJsonFile]_vars

LogKinds(log) == {log[i].kind : i \in DOMAIN log}

\* C11: a .json file whose text is one JSON record per line is read line by
\* line: its staging table holds one row per line
C11_LineDelimitedFirst ==
  (calls = 1 /\ arg.obj.kind = "lines") =>
    /\ "stg_payload" \in DOMAIN ret[1].d
    /\ Len(ret[1].d["stg_payload"].rows) = Len(arg.obj.v)

\* C12: a decoded payload that is neither a mapping of mappings nor a list
\* is written as a table of exactly one row that wraps it, with a warning in
\* the log, and the file never fails
C12_StructuralFallback ==
  (calls = 1 /\ json_load(arg.obj).ok
             /\ ~IsDictOfDicts(json_load(arg.obj).obj)
             /\ json_load(arg.obj).obj.kind # "list") =>
    /\ "ERROR" \notin LogKinds(ret[1].log)
    /\ "stg_payload" \in DOMAIN ret[1].d
    /\ Len(ret[1].d["stg_payload"].rows) = 1
    /\ ret[1].d["stg_payload"].cols = WrapRow(json_load(arg.obj).obj).cols
    /\ LogKinds(ret[1].log) \cap {"WARN", "DEBUG"} # {}

----------------------------------------------------------------------------
(* Specification of the cell functions mask_credit_card, clean_birthdate and
   extract_int_from_string *)

\* characters of a generated text
MaxTextLen == 5

TextAlphabet == {"1", "2", "-", "d"}

RECURSIVE TextsUpTo(_)
TextsUpTo(n) ==
  IF n = 0 THEN {""}
  ELSE TextsUpTo(n - 1)
         \cup {t \o c : t \in {u \in TextsUpTo(n - 1) : Len(u) = n - 1},
                        c \in TextAlphabet}

\* the inputs of mask_credit_card and extract_int_from_string
TextCells ==
  {Text(t) : t \in TextsUpTo(MaxTextLen)}
    \cup {Text("4111-1111-1111-2345"), Text("12"), Text("13days"), Text("4PCs"),
          Text("no number"), Text("-2 days"), NULL, IntCell(41112345), IntCell(0 - 7)}

Pad2(n) == IF n < 10 THEN "0" \o NatToStr(n) ELSE NatToStr(n)

DateText(y, m, d) == NatToStr(y) \o "-" \o Pad2(m) \o "-" \o Pad2(d)

\* the days date.today() is drawn from, and the ages around the limits
CellTodays ==
  {[y |-> 2026, m |-> 11, d |-> 3], [y |-> 2024, m |-> 2, d |-> 29],
   [y |-> 2025, m |-> 3, d |-> 1]}

AgeOffsets == {3, 4, 5, 6, 40, 110, 111, 130}

\* birthdates around the birthday of today, some of them no date at all
BirthCells(today) ==
  {Text(DateText(today.y - k, m, d)) :
     k \in AgeOffsets, m \in {today.m, 1, 12},
     d \in {today.d, today.d + 1, IF today.d > 1 THEN today.d - 1 ELSE 28}}
    \cup {NULL, Text("n/a"), Text("1899-12-31")}

InitCell ==
  /\ CleanIdle /\ IngestIdle
  /\ arg \in {[fn |-> f, in |-> c, today |-> [y |-> 2026, m |-> 11, d |-> 3]] :
                f \in {"mask_credit_card", "extract_int_from_string"},
                c \in TextCells}
            \cup {[fn |-> "clean_birthdate", in |-> c, today |-> t] :
                    t \in CellTodays, c \in UNION {BirthCells(u) : u \in CellTodays}}
  /\ ret = <<>>
  /\ calls = 0

MaskCard ==
  /\ calls = 0 /\ arg.fn = "mask_credit_card"
  /\ ret' = <<mask_credit_card(arg.in)>>
  /\ calls' = 1
  /\ UNCHANGED <<arg, cleanvars, ingestvars>>

CleanBirthdate ==
  /\ calls = 0 /\ arg.fn = "clean_birthdate"
  /\ ret' = <<clean_birthdate(arg.in, arg.today)>>
  /\ calls' = 1
  /\ UNCHANGED <<arg, cleanvars, ingestvars>>

ExtractInt ==
  /\ calls = 0 /\ arg.fn = "extract_int_from_string"
  /\ ret' = <<extract_int_from_string(arg.in)>>
  /\ calls' = 1
  /\ UNCHANGED <<arg, cleanvars, ingestvars>>

NextCell == MaskCard \/ CleanBirthdate \/ ExtractInt

SpecCell == InitCell /\ [][NextCell]_vars

\* the text of the input cell, and the positions of its digits
InText == AsStr(arg.in).s

DigitPositions == {i \in 1..Len(InText) : IsDigit(Char(InText, i))}

\* the last k digits of the input text, in their order
RECURSIVE LastDigitsFrom(_, _)
LastDigitsFrom(i, k) ==
  IF k = 0 \/ i = 0 THEN ""
  ELSE IF IsDigit(Char(InText, i))
       THEN LastDigitsFrom(i - 1, k - 1) \o Char(InText, i)
       ELSE LastDigitsFrom(i - 1, k)

\* C13: mask_credit_card gives '**** **** **** ' followed by the last four
\* digits of the input when the input holds at least four digits, and null
\* when it holds fewer or is null; no other digit of the input is in the result
C13_MaskKeepsLastFour ==
  (calls = 1 /\ arg.fn = "mask_credit_card") =>
    ret[1] = IF ~IsNa(arg.in) /\ Cardinality(DigitPositions) >= 4
             THEN Text("**** **** **** " \o LastDigitsFrom(Len(InText), 4))
             ELSE NULL

\* a card number of more than four digits with separators was masked
C13_Witness_Masked ==
  /\ calls = 1 /\ arg.fn = "mask_credit_card"
  /\ arg.in = Text("4111-1111-1111-2345")
  /\ ret[1] = Text("**** **** **** 2345")

\* C16: clean_birthdate gives null for a null or unparseable input and for a
\* date whose age in completed years on today's date is below 5 or above
\* 110 or whose year is before 1900, and the date itself otherwise; ages of
\* exactly 5 and exactly 110 are kept
C16_BirthdatePlausible ==
  (calls = 1 /\ arg.fn = "clean_birthdate") =>
    LET p == parse_date_safe(arg.in)
        y == p.n \div 10000
        md == p.n % 10000
        age == arg.today.y - y
                 - (IF arg.today.m * 100 + arg.today.d < md THEN 1 ELSE 0)
    IN ret[1] = IF IsNa(p) \/ age < 5 \/ age > 110 \/ y < 1900 THEN NULL ELSE p

\* a fifth birthday today and an age of 110 are kept, the day before the
\* fifth birthday is not
C16_Witness_Limits ==
  /\ calls = 1 /\ arg.fn = "clean_birthdate"
  /\ arg.today = [y |-> 2026, m |-> 11, d |-> 3]
  /\ \/ arg.in = Text("2021-11-03") /\ ret[1] = parse_date_safe(arg.in)
     \/ arg.in = Text("1916-11-02") /\ ret[1] = parse_date_safe(arg.in)

\* C17: extract_int_from_string gives the value of the leftmost maximal run
\* of digits of the text, negated when a minus sign stands just before the
\* run, and null when the text has no digit or the input is null
C17_FirstDigitRun ==
  (calls = 1 /\ arg.fn = "extract_int_from_string") =>
    IF IsNa(arg.in) \/ DigitPositions = {} THEN ret[1] = NULL
    ELSE LET a == CHOOSE i \in DigitPositions : \A j \in DigitPositions : i <= j
             b == CHOOSE j \in a..Len(InText) :
                    /\ (a..j) \subseteq DigitPositions
                    /\ (j + 1) \notin DigitPositions
             v == DigitsValue(SubSeq(InText, a, b))
         IN ret[1] = IntCell(IF a > 1 /\ Char(InText, a - 1) = "-"
                             THEN 0 - v ELSE v)

\* a run of digits after a minus sign and other text gave a negative number
C17_Witness_Negative ==
  /\ calls = 1 /\ arg.fn = "extract_int_from_string"
  /\ arg.in = Text("d-12d")
  /\ ret[1] = IntCell(0 - 12)

----------------------------------------------------------------------------
(* Specification of ingest_pickle against the JSON ingestion *)

FrameObj(df) == [kind |-> "frame", v |-> df]

\* the objects a pickle holds: the mappings of mappings of the JSON loader,
\* and frames of scalar cells
PickleObjects ==
  JsonPayloads
    \cup {FrameObj(df) :
            df \in FramesUpTo({"a", "B c"},
                              [c \in {"a", "B c"} |-> {NULL, Text("x"), IntCell(1)}],
                              MaxCells)}

InitPickle ==
  /\ CleanIdle /\ IngestIdle
  /\ arg \in PickleObjects
  /\ ret = <<>>
  /\ calls = 0

\* the databases a batch over the single file can leave
TablesOf(f) ==
  {o.d : o \in UNION {ingest_file(NoTables, f, b) : b \in BOOLEAN}}

\* ingest_file of payload.pkl holding the object
IngestPickle ==
  /\ calls = 0
  /\ ret' = <<TablesOf(File("payload.pkl", "", arg))>>
  /\ calls' = 1
  /\ UNCHANGED <<arg, cleanvars, ingestvars>>

\* ingest_file of payload.json holding the same mapping
IngestSameJson ==
  /\ calls = 1
  /\ arg.kind # "frame"
  /\ ret' = Append(ret, TablesOf(File("payload.json", "", arg)))
  /\ calls' = 2
  /\ UNCHANGED <<arg, cleanvars, ingestvars>>

NextPickle == IngestPickle \/ IngestSameJson

SpecPickle == InitPickle /\ [][NextPickle]_vars

\* C14: for a mapping of mappings ingest_pickle builds the tables the JSON
\* loader builds for the same mapping, and an object that is a frame is
\* written with its rows and cells as they are (its columns under their
\* normalized names)
C14_PickleAgreesWithJson ==
  /\ (calls = 2 /\ IsDictOfDicts(arg)) => ret[1] = ret[2]
  /\ (calls = 1 /\ arg.kind = "frame") =>
       \A d \in ret[1] :
         /\ DOMAIN d = {"stg_payload"}
         /\ d["stg_payload"].cols = {NormalizeName(c) : c \in arg.v.cols}
         /\ Len(d["stg_payload"].rows) = Len(arg.v.rows)
         /\ \A i \in DOMAIN arg.v.rows : \A c \in arg.v.cols :
              d["stg_payload"].rows[i][NormalizeName(c)] = arg.v.rows[i][c]

\* a mapping whose columns have different inner keys went through both
\* loaders and gave a table of two rows
C14_Witness_UnionOfKeys ==
  /\ calls = 2
  /\ IsDictOfDicts(arg)
  /\ DOMAIN arg.v = {"a", "b"}
  /\ DOMAIN arg.v["a"].v = {"1"} /\ DOMAIN arg.v["b"].v = {"2"}
  /\ \E d \in ret[1] : Len(d["stg_payload"].rows) = 2

----------------------------------------------------------------------------
(* Specification of normalize_cols on lists of column names *)

\* characters of a generated column name
MaxNameLen == 3

NameAlphabet == {"A", "b", " ", "_"}

RECURSIVE NamesUpTo(_)
NamesUpTo(n) ==
  IF n = 0 THEN {""}
  ELSE NamesUpTo(n - 1)
         \cup {t \o c : t \in {u \in NamesUpTo(n - 1) : Len(u) = n - 1},
                        c \in NameAlphabet}

\* the column lists: one generated name, alone or before a second column
\* whose name may normalize to the same
NameLists ==
  {<<n>> : n \in NamesUpTo(MaxNameLen)}
    \cup {<<n, m>> : n \in NamesUpTo(MaxNameLen), m \in {"a", " A\tb "}}

InitCols ==
  /\ CleanIdle /\ IngestIdle
  /\ arg \in NameLists
  /\ ret = <<>>
  /\ calls = 0

\* normalize_cols in the ingest function
NormalizeOnce ==
  /\ calls = 0
  /\ ret' = <<normalize_col_names(arg)>>
  /\ calls' = 1
  /\ UNCHANGED <<arg, cleanvars, ingestvars>>

\* normalize_cols again, in safe_write_sql
NormalizeAgain ==
  /\ calls = 1
  /\ ret' = Append(ret, normalize_col_names(ret[1]))
  /\ calls' = 2
  /\ UNCHANGED <<arg, cleanvars, ingestvars>>

NextCols == NormalizeOnce \/ NormalizeAgain

SpecCols == InitCols /\ [][NextCols]_vars

\* the name between its first and last character that is no whitespace
Core(n) ==
  LET P == {i \in 1..Len(n) : ~IsSpace(Char(n, i))}
  IN IF P = {} THEN ""
     ELSE SubSeq(n, CHOOSE i \in P : \A j \in P : i <= j,
                    CHOOSE i \in P : \A j \in P : i >= j)

\* every character of t lowercased, every whitespace run as one underscore
RECURSIVE Underscored(_, _)
Underscored(t, i) ==
  IF i > Len(t) THEN ""
  ELSE (IF ~IsSpace(Char(t, i)) THEN LowerChar(Char(t, i))
        ELSE IF i = 1 \/ ~IsSpace(Char(t, i - 1)) THEN "_"
        ELSE "")
       \o Underscored(t, i + 1)

\* C15: normalize_cols maps every name to its stripped, lowercased form with
\* every whitespace run as one underscore, and a second normalize_cols
\* changes no name
C15_NormalizeIdempotent ==
  /\ calls >= 1 =>
       /\ Len(ret[1]) = Len(arg)
       /\ \A i \in DOMAIN arg : ret[1][i] = Underscored(Core(arg[i]), 1)
  /\ calls = 2 => ret[2] = ret[1]

\* a name with outer and inner whitespace and a capital went through both
\* normalizations
C15_Witness_Renamed ==
  /\ calls = 2
  /\ Len(arg) = 2 /\ arg[2] = " A\tb "
  /\ ret[2][2] = "a_b"

\* the users source the last cleaning run found makes build_dim_users fail:
\* it has rows but lacks user_id or another column of the curated table
UsersSourceBroken ==
  /\ "stg_user_data" \in DOMAIN src
  /\ ~IsEmpty(src["stg_user_data"])
  /\ ~(UserCurCols \subseteq src["stg_user_data"].cols)

\* C18: a cleaning run in which the build of the users table fails still
\* runs the later builders, which write their curated tables, and reaches
\* 'CLEANING RUN COMPLETE'
C18_EntityFailureContained ==
  (cstatus # "none" /\ UsersSourceBroken) =>
    /\ cstatus = "complete"
    /\ {"cur_dim_products", "cur_dim_merchants"} \subseteq DOMAIN db

\* the file of the batch an [OK] line of the log is about
FileOfEntry(e) == CHOOSE f \in rawdir : f.name = e.file

\* the staging table ingest_file writes for file f alone
OwnTables(f, table) ==
  {o.d[table] : o \in {x \in UNION {ingest_file(NoTables, f, er) : er \in BOOLEAN} :
                         table \in DOMAIN x.d}}

\* C19: after an ingestion batch every successfully ingested file has its
\* own staging table holding that file's rows, and no two files of the
\* batch were written to the same staging table
C19_OneTablePerFile ==
  ipc = "done" =>
    /\ \A i, j \in DOMAIN OkEntries :
         i # j => OkEntries[i].table # OkEntries[j].table
    /\ \A i \in DOMAIN OkEntries :
         /\ OkEntries[i].table \in DOMAIN db
         /\ db[OkEntries[i].table]
              \in OwnTables(FileOfEntry(OkEntries[i]), OkEntries[i].table)

----------------------------------------------------------------------------
(* clean_user_credit_card on two staging tables that differ only in hidden
   digits of card numbers *)

MaxCardRows == 2

\* card_number columns as read_table gives them: text (with missing values),
\* int64, or float64 (a numeric column that had a missing value when it was
\* staged, or whose file wrote the numbers as floats)
CardTextCells ==
  {Text("4111-1111-1111-2345"), Text("5500-1111-1111-2345"), Text("12345"),
   Text("92345"), Text("12"), NULL}

CardIntCells == {IntCell(41112345), IntCell(99912345)}

CardFloatCells ==
  {FloatCell("41112345"), FloatCell("51112345"),
   FloatCell("41000000000000000"), FloatCell("51000000000000000")}

CardColumns ==
  UNION {[1..n -> CardTextCells] \cup [1..n -> CardIntCells]
           \cup [1..n -> CardFloatCells] : n \in 1..MaxCardRows}

\* a staging table with the card numbers of column cards; with "cvv" the
\* table has a column that is no part of the curated table
CardTable(cards, extra) ==
  Frame({"user_id", "card_number", "card_type"} \cup extra,
        [i \in DOMAIN cards |->
           [c \in {"user_id", "card_number", "card_type"} \cup extra |->
              CASE c = "user_id" -> Text("U" \o NatToStr(i))
                [] c = "card_number" -> cards[i]
                [] c = "card_type" -> Text("visa")
                [] OTHER -> IntCell(123)]])

\* the digits of a card number as the table holds it
CardDigitsText(c) ==
  IF c.k = "int" THEN IntToStr(c.n) ELSE c.s

DigitCount(t) == Cardinality({i \in 1..Len(t) : IsDigit(Char(t, i))})

\* position i of t is a digit that is not among the last four digits of t
HiddenDigit(t, i) ==
  /\ IsDigit(Char(t, i))
  /\ DigitCount(SubSeq(t, i, Len(t))) > 4

\* two card numbers equal except for digits other than the last four
SameButHidden(x, y) ==
  /\ x.k = y.k
  /\ LET tx == CardDigitsText(x)
         ty == CardDigitsText(y)
     IN /\ Len(tx) = Len(ty)
        /\ \A i \in 1..Len(tx) :
             Char(tx, i) = Char(ty, i) \/ (HiddenDigit(tx, i) /\ HiddenDigit(ty, i))

\* pairs of staging tables equal except for hidden digits of card numbers
CardTablePairs ==
  {[a |-> CardTable(p[1], extra), b |-> CardTable(p[2], extra)] :
     p \in {q \in CardColumns \X CardColumns :
              /\ Len(q[1]) = Len(q[2])
              /\ \A i \in DOMAIN q[1] : SameButHidden(q[1][i], q[2][i])},
     extra \in {{}, {"cvv"}}}

InitCard ==
  /\ CleanIdle /\ IngestIdle
  /\ arg \in CardTablePairs
  /\ ret = <<>>
  /\ calls = 0

\* clean_user_credit_card() on each of the two tables
CleanCards ==
  /\ calls = 0
  /\ \E oa \in clean_user_credit_card(Put(NoTables, "stg_user_credit_card", arg.a)) :
       \E ob \in clean_user_credit_card(Put(NoTables, "stg_user_credit_card", arg.b)) :
         ret' = <<oa.d, ob.d>>
  /\ calls' = 1
  /\ UNCHANGED <<arg, cleanvars, ingestvars>>

NextCard == CleanCards

SpecCard == InitCard /\ [][NextCard]_vars

\* every card number of the table has at least four digits
FourDigitsEach(df) ==
  \A i \in DOMAIN df.rows :
    /\ ~IsNa(df.rows[i]["card_number"])
    /\ DigitCount(CardDigitsText(df.rows[i]["card_number"])) >= 4

\* C20: for two stg_user_credit_card tables equal except for card_number
\* digits other than the last four, each card number having at least four
\* digits, clean_user_credit_card writes identical
\* cur_user_credit_card_summary tables, whose columns are among user_id,
\* card_masked, card_type, expiry and never card_number
C20_CardConfidentiality ==
  (calls = 1 /\ FourDigitsEach(arg.a) /\ FourDigitsEach(arg.b)) =>
    /\ "cur_user_credit_card_summary" \in DOMAIN ret[1] \cap DOMAIN ret[2]
    /\ ret[1]["cur_user_credit_card_summary"] = ret[2]["cur_user_credit_card_summary"]
    /\ ret[1]["cur_user_credit_card_summary"].cols
         \subseteq {"user_id", "card_masked", "card_type", "expiry"}

====
